---- MODULE Spec2Model ----
(***************************************************************************)
(* The ingestion-and-dispatch pipeline of highlight-vmaf-api: the Record   *)
(* Store insert (database/db_access.py), the Queue Client                  *)
(* (utils/redis_util.py) and the two create handlers (api/video_routes.py).*)
(* A request-handling context is a member of Threads.                      *)
(***************************************************************************)
EXTENDS Integers, Sequences, FiniteSets, TLC

\* ---------------------------------------------------------------- bounds
\* largest batch a request carries (the code admits 1..100)
MaxBatch == 3
\* items submitted by all the requests of one behaviour, when it has more
\* than one request
MaxShared == 2
\* AUTO_INCREMENT of video_info when the process starts
FirstId == 9
\* Queue Client operations one context performs, one after the other
MaxOps == 2
\* rows of a table a read meets
MaxRows == 3
\* page numbers and page sizes of the read requests
MaxPage == 3
MaxSize == 2
\* total_items and page_size given to create_pagination_data directly
MaxTotal == 25
MaxPageSize == 10
\* Record Store operations one caller of the pool performs
MaxCalls == 2

\* ------------------------------------------------------- program constants
max_retries == 3
pool_size == 2
HTTP_200_OK == 200
HTTP_201_CREATED == 201
HTTP_500_INTERNAL_SERVER_ERROR == 500
\* 0.1 s, in milliseconds
BackoffBaseMs == 100

Threads == {"t1", "t2"}
\* Optional[T]: None, or Some(x)
None == << >>
Some(x) == << x >>
The(o) == o[1]

QUEUE_NAME_V1 == "queue:v1"
QUEUE_NAME_V2 == "queue:v2"
QueueNames == {QUEUE_NAME_V1, QUEUE_NAME_V2}

\* CreateVideoRequest values the requests are drawn from
CreateVideoRequest ==
    { [original_url |-> "a", highlight_url |-> "b", title |-> "t"],
      [original_url |-> "c", highlight_url |-> "d", title |-> "u"] }

\* BatchCreateVideoRequest.videos: 1..MaxBatch items
BatchCreateVideoRequest == UNION { [1..n -> CreateVideoRequest] : n \in 1..MaxBatch }

VARIABLES
    PROCESSOR_VERSION,  \* the deployment's wire shape
    store,              \* rows of video_info, in commit order
    video_stats,        \* rows of video_stats
    dbcalls,            \* history: the Record Store calls of a read request
    auto_increment,     \* next id the store assigns
    queue,              \* broker lists: queue name -> entries, head first
    brokerUp,           \* the broker answers commands
    _instance,          \* RedisClient._instance
    client,             \* RedisClient._instance.client
    _initialized,       \* RedisClient._instance._initialized
    _lock,              \* holder of RedisClient._lock
    connects,           \* connections established by _connect (its ping answered)
    handle,             \* the reference to the handle a context holds
    op,                 \* the Queue Client operation a context runs
    pc,                 \* position of each context
    req,                \* the request a context handles
    idx,                \* batch loop index (0-based, as enumerate)
    result,             \* insert_video_info's return value
    results,            \* batch: VideoCreationResult list
    success_count,
    failed_count,
    response,           \* the ApiResponse returned
    key,                \* lpush: queue name
    value,              \* lpush: payload
    attempt,            \* _retry_operation: loop variable
    last_error,         \* _retry_operation: last_error
    ret,                \* outcome of the last Queue Client call made directly
    ops,                \* Queue Client operations completed by a context
    tried,              \* history: outcomes of the attempts of the current call
    slept,              \* history: time.sleep arguments of the current call (ms)
    hist,               \* history: per item, what the handler did
    phase,              \* history: the state of the handle, as the Queue Client names it
    free,               \* connections in the queue of db.pool
    caller              \* the Record Store operation of each caller of db

vars == << PROCESSOR_VERSION, store, video_stats, dbcalls, auto_increment, queue, brokerUp,
           _instance, client, _initialized, _lock, connects, handle, op,
           pc, req, idx, result, results, success_count, failed_count,
           response, key, value, attempt, last_error, ret, ops,
           tried, slept, hist, phase, free, caller >>

classVars == << _instance, client, _initialized, _lock, connects >>
handleVars == << _instance, client, _initialized, _lock, connects, handle, op >>
storeVars == << store, auto_increment >>
readVars == << video_stats, dbcalls >>
poolVars == << free, caller >>
handlerVars == << req, idx, result, results, success_count, failed_count, response, hist >>
callVars == << key, value, attempt, last_error, tried, slept >>

\* ------------------------------------------------------------ conversions
Digit == << "0", "1", "2", "3", "4", "5", "6", "7", "8", "9" >>

\* str(video_id) for a non-negative int
RECURSIVE str(_)
str(n) == IF n < 10 THEN Digit[n + 1] ELSE str(n \div 10) \o Digit[(n % 10) + 1]

\* json.dumps of a str without characters that need escaping
dumps_str(s) == "\"" \o s \o "\""

\* json.dumps(video_job_data): keys in insertion order, ", " and ": " separators
dumps(video_id, original_url, highlight_url) ==
    "{" \o dumps_str("video_id") \o ": " \o str(video_id) \o ", "
        \o dumps_str("original_url") \o ": " \o dumps_str(original_url) \o ", "
        \o dumps_str("highlight_url") \o ": " \o dumps_str(highlight_url) \o "}"

\* ------------------------------------------------------------ envelopes
create_success_response(data, message, code) ==
    [code |-> code, status |-> "success", message |-> message, data |-> data]

create_error_response(message, code) ==
    [code |-> code, status |-> "failed", message |-> message, data |-> None]

VideoCreationResult(success, video_id, video_data, error) ==
    [success |-> success, video_id |-> video_id, video_data |-> video_data, error |-> error]

BatchCreationResponse(total, sc, fc, rs) ==
    [total |-> total, success_count |-> sc, failed_count |-> fc, results |-> rs]

\* a bug: any success is tested first, a batch all of whose items succeeded
\* gets the mixed message
BatchMessage_AnySuccessFirst(sc, fc, n) ==
    IF sc > 0 THEN str(sc) \o " videos created, " \o str(fc) \o " failed"
    ELSE IF sc = n THEN "All " \o str(sc) \o " videos created successfully"
    ELSE "All videos failed to create"

\* the batch message, by success_count
BatchMessage(sc, fc, n) ==
    IF sc = n THEN "All " \o str(sc) \o " videos created successfully"
    ELSE IF sc > 0 THEN str(sc) \o " videos created, " \o str(fc) \o " failed"
    ELSE "All videos failed to create"

\* ------------------------------------------------------------ Record Store
\* what one insert_video_info call meets in the store
DbOutcomes == {"ok", "query_error", "no_connection", "close_error"}

\* insert_video_info(original_url, highlight_url, title) under outcome o:
\*   ok            the row is committed and the record returned
\*   query_error   execute or commit raises Error: caught, None returned
\*   no_connection get_connection returned None: "with None" raises TypeError,
\*                 which is no mysql Error and leaves the function
\*   close_error   the row is committed, leaving the with-blocks raises Error:
\*                 caught, None returned
\* a bug: the record is returned although the statement failed
insert_video_info_Uncommitted(v, o) ==
    LET row == [id |-> auto_increment, original_url |-> v.original_url,
                highlight_url |-> v.highlight_url, title |-> v.title, status |-> 0]
    IN  IF o \in {"ok", "query_error"}
        THEN [rows |-> IF o = "ok" THEN Append(store, row) ELSE store,
              next |-> auto_increment + 1, result |-> Some(row), raised |-> None]
        ELSE [rows |-> store, next |-> auto_increment, result |-> None,
              raised |-> IF o = "no_connection" THEN Some("TypeError") ELSE None]

\* a bug: the record carries the lastrowid of the insert before
insert_video_info_StaleId(v, o) ==
    LET row == [id |-> auto_increment, original_url |-> v.original_url,
                highlight_url |-> v.highlight_url, title |-> v.title, status |-> 0]
    IN  CASE o = "ok" ->
              [rows |-> Append(store, row), next |-> auto_increment + 1,
               result |-> Some([row EXCEPT !.id = auto_increment - 1]), raised |-> None]
          [] o = "close_error" ->
              [rows |-> Append(store, row), next |-> auto_increment + 1,
               result |-> None, raised |-> None]
          [] o = "query_error" ->
              [rows |-> store, next |-> auto_increment,
               result |-> None, raised |-> None]
          [] o = "no_connection" ->
              [rows |-> store, next |-> auto_increment,
               result |-> None, raised |-> Some("TypeError")]

insert_video_info(v, o) ==
    LET row == [id |-> auto_increment, original_url |-> v.original_url,
                highlight_url |-> v.highlight_url, title |-> v.title, status |-> 0]
    IN  CASE o = "ok" ->
              [rows |-> Append(store, row), next |-> auto_increment + 1,
               result |-> Some(row), raised |-> None]
          [] o = "close_error" ->
              [rows |-> Append(store, row), next |-> auto_increment + 1,
               result |-> None, raised |-> None]
          [] o = "query_error" ->
              [rows |-> store, next |-> auto_increment,
               result |-> None, raised |-> None]
          [] o = "no_connection" ->
              [rows |-> store, next |-> auto_increment,
               result |-> None, raised |-> Some("TypeError")]

\* ------------------------------------------------------------ Queue Client
ConnectionError == "ConnectionError"
TimeoutError == "TimeoutError"
ResponseError == "ResponseError"
AttributeError == "AttributeError"

\* redis.exceptions.RedisError and its subclasses
RedisErrors == {ConnectionError, TimeoutError, ResponseError}
\* a bug: _retry_operation catches every RedisError
Transient_EveryRedisError == RedisErrors

\* the except clause of _retry_operation
Transient == {ConnectionError, TimeoutError}

\* What one command sent through the client meets:
\*   ok          applied, answered
\*   applied_timeout  applied by the broker, the answer lost: TimeoutError
\*   ResponseError    refused by the broker (a non-transient error)
\*   ConnectionError, TimeoutError   the broker is not reached
BrokerOutcomes ==
    IF brokerUp THEN {"ok", "applied_timeout", ResponseError}
    ELSE {ConnectionError, TimeoutError}

\* the exception a command's outcome raises in the client (None: it returns)
Raised(o) == CASE o = "ok" -> None
               [] o = "applied_timeout" -> Some(TimeoutError)
               [] OTHER -> Some(o)

\* the broker's list after LPUSH key value
LPUSH(k, v) == [queue EXCEPT ![k] = << v >> \o @]

\* the job descriptor and its queue, by PROCESSOR_VERSION
JobQueue == IF PROCESSOR_VERSION = "v1" THEN QUEUE_NAME_V1 ELSE QUEUE_NAME_V2
\* a bug: the two wire shapes are exchanged
JobDescriptor_Exchanged(video_id, v) ==
    IF PROCESSOR_VERSION = "v2" THEN str(video_id)
    ELSE dumps(video_id, v.original_url, v.highlight_url)

JobDescriptor(video_id, v) ==
    IF PROCESSOR_VERSION = "v1" THEN str(video_id)
    ELSE dumps(video_id, v.original_url, v.highlight_url)

\* a bug: the wait does not grow
wait_time_Constant(k) == BackoffBaseMs

\* time.sleep argument after failed attempt k: 0.1 * 2 ** k
wait_time(k) == BackoffBaseMs * (2 ^ k)

\* ------------------------------------------------------------ the pool
\* the contexts that call db at the same time
Callers == {"c1", "c2", "c3"}

\* a caller that has not called db yet
NoCall == [pc |-> "idle", fn |-> "none", got |-> "none", met |-> "none", calls |-> 0,
           ret |-> None]

\* the operations of the Record Store that the callers run
RecordStoreOps == {"insert_video_info", "get_video_page", "get_video_count",
                   "get_highlight_page", "get_highlight_count"}

\* ------------------------------------------------------------ Init
\* the broker, the lock and the contexts, none of which has begun
InitContexts ==
    /\ queue = [q \in QueueNames |-> << >>]
    /\ brokerUp = TRUE
    /\ _lock = "free"
    /\ dbcalls = [t \in Threads |-> << >>]
    /\ op = [t \in Threads |-> "none"]
    /\ pc = [t \in Threads |-> "idle"]
    /\ req = [t \in Threads |-> None]
    /\ idx = [t \in Threads |-> 0]
    /\ result = [t \in Threads |-> None]
    /\ results = [t \in Threads |-> << >>]
    /\ success_count = [t \in Threads |-> 0]
    /\ failed_count = [t \in Threads |-> 0]
    /\ response = [t \in Threads |-> None]
    /\ key = [t \in Threads |-> None]
    /\ value = [t \in Threads |-> None]
    /\ attempt = [t \in Threads |-> 0]
    /\ last_error = [t \in Threads |-> None]
    /\ ret = [t \in Threads |-> None]
    /\ ops = [t \in Threads |-> 0]
    /\ tried = [t \in Threads |-> << >>]
    /\ slept = [t \in Threads |-> << >>]
    /\ hist = [t \in Threads |-> << >>]
    /\ free = pool_size
    /\ caller = [c \in Callers |-> NoCall]

\* everything but the handle
InitRest ==
    /\ PROCESSOR_VERSION \in {"v1", "v2"}
    /\ store = << >>
    /\ video_stats = << >>
    /\ auto_increment = FirstId
    /\ InitContexts

\* the handlers' process once api/video_routes.py is imported: line 24 has
\* bound redis_client to the handle, whose first ping was answered
Init ==
    /\ InitRest
    /\ _instance = "obj"
    /\ client = "Redis"
    /\ _initialized = "True"
    /\ connects = 1
    /\ phase = "CONNECTED"
    /\ handle = [t \in Threads |-> "obj"]

\* a process that has not yet asked for the handle
InitQueue ==
    /\ InitRest
    /\ _instance = "None"
    /\ client = "unset"
    /\ _initialized = "unset"
    /\ connects = 0
    /\ phase = "UNCONNECTED"
    /\ handle = [t \in Threads |-> "None"]

\* items of the requests accepted so far
Submitted == LET n(t) == IF req[t] = None THEN 0 ELSE Len(The(req[t]).videos)
             IN  n("t1") + n("t2")

\* the bound on the requests of one behaviour: one request of any admitted
\* size, or several that submit MaxShared items together
Admit(n) == Submitted = 0 \/ Submitted + n <= MaxShared

\* the broker becomes unreachable, or reachable again
ConnectivityChange ==
    /\ brokerUp' = ~brokerUp
    /\ UNCHANGED << readVars, poolVars, phase, PROCESSOR_VERSION, store, auto_increment, queue, handleVars,
                    pc, handlerVars, callVars, ret, ops >>

\* ------------------------------------------------------------ handlers
Returned(n) == [kind |-> "return", val |-> n]
Raise(e) == [kind |-> "raise", val |-> e]

\* history: the record of the item a handler is working on
NewItem(o, r) == [insert |-> o, id |-> IF r = None THEN 0 ELSE The(r).id,
                  calls |-> 0, tries |-> 0, push |-> None]
Last(h) == h[Len(h)]
SetLast(h, x) == [h EXCEPT ![Len(h)] = x]

\* batch_create_videos, steps 4 and 5, after the loop
\* a bug: a batch none of whose items succeeded is answered as an error
BatchEnvelope_AllFailedIsError(n, sc, fc, rs) ==
    IF sc = 0
    THEN create_error_response(BatchMessage(sc, fc, n), HTTP_500_INTERNAL_SERVER_ERROR)
    ELSE create_success_response(Some(BatchCreationResponse(n, sc, fc, rs)),
                                 BatchMessage(sc, fc, n), HTTP_201_CREATED)

BatchEnvelope(n, sc, fc, rs) ==
    create_success_response(Some(BatchCreationResponse(n, sc, fc, rs)),
                            BatchMessage(sc, fc, n), HTTP_201_CREATED)

\* the end of one iteration of the batch loop with the new counters and
\* results: the loop goes on, or it is over and the envelope is built
Iterate(t, sc, fc, rs, over) ==
    /\ success_count' = [success_count EXCEPT ![t] = sc]
    /\ failed_count' = [failed_count EXCEPT ![t] = fc]
    /\ results' = [results EXCEPT ![t] = rs]
    /\ idx' = [idx EXCEPT ![t] = @ + 1]
    /\ IF over
       THEN /\ response' = [response EXCEPT ![t] =
                   Some(BatchEnvelope(Len(The(req[t]).videos), sc, fc, rs))]
            /\ pc' = [pc EXCEPT ![t] = "done"]
       ELSE /\ pc' = [pc EXCEPT ![t] = "insert"]
            /\ UNCHANGED response

\* a bug: failed items are not counted
EndItem_FailuresUncounted(t, r) ==
    Iterate(t, success_count[t] + (IF r.success THEN 1 ELSE 0), failed_count[t],
            Append(results[t], r), idx[t] + 1 = Len(The(req[t]).videos))

\* a bug: the results of failed items are put in front
EndItem_FailuresFirst(t, r) ==
    Iterate(t, success_count[t] + (IF r.success THEN 1 ELSE 0),
            failed_count[t] + (IF r.success THEN 0 ELSE 1),
            IF r.success THEN Append(results[t], r) ELSE << r >> \o results[t],
            idx[t] + 1 = Len(The(req[t]).videos))

\* a bug: the first failed item ends the loop
EndItem_FailureAborts(t, r) ==
    Iterate(t, success_count[t] + (IF r.success THEN 1 ELSE 0),
            failed_count[t] + (IF r.success THEN 0 ELSE 1),
            Append(results[t], r),
            ~r.success \/ idx[t] + 1 = Len(The(req[t]).videos))

\* one item of the batch is over: r is appended for it and one counter is
\* incremented
EndItem(t, r) ==
    Iterate(t, success_count[t] + (IF r.success THEN 1 ELSE 0),
            failed_count[t] + (IF r.success THEN 0 ELSE 1),
            Append(results[t], r),
            idx[t] + 1 = Len(The(req[t]).videos))

\* the item fails, as after a failed insert: e is the exception, if any
Fail(t, e) ==
    IF The(req[t]).kind = "single"
    THEN /\ response' = [response EXCEPT ![t] =
                IF e = None
                THEN Some(create_error_response("Failed to create video",
                                                HTTP_500_INTERNAL_SERVER_ERROR))
                ELSE Some(create_error_response("Internal server error: " \o The(e),
                                                HTTP_500_INTERNAL_SERVER_ERROR))]
         /\ pc' = [pc EXCEPT ![t] = "done"]
         /\ UNCHANGED << idx, results, success_count, failed_count >>
    ELSE EndItem(t, VideoCreationResult(FALSE, None, None,
                       IF e = None THEN Some("Failed to insert video into database")
                       ELSE e))

\* the item succeeds with the record of result[t]
Succeed(t) ==
    IF The(req[t]).kind = "single"
    THEN /\ response' = [response EXCEPT ![t] =
                Some(create_success_response(result[t], "Video created successfully",
                                             HTTP_201_CREATED))]
         /\ pc' = [pc EXCEPT ![t] = "done"]
         /\ UNCHANGED << idx, results, success_count, failed_count >>
    ELSE EndItem(t, VideoCreationResult(TRUE, Some(The(result[t]).id), result[t], None))

\* a bug: a push that used up its retries fails the item
AfterPush_ExhaustedPushFails(t) ==
    IF attempt[t] = max_retries - 1 /\ last_error[t] # None
    THEN Fail(t, last_error[t])
    ELSE Succeed(t)

\* step 3 of both handlers: the push has returned or raised, the item succeeds
AfterPush(t) == Succeed(t)

\* a bug: the test of the insert's result is missing, a None result is reported
\* as a created video
AfterFailedInsert_Unchecked(t, e) ==
    IF e = None THEN Succeed(t) ELSE Fail(t, e)

\* the insert returned None or raised e: the item fails, no push
AfterFailedInsert(t, e) == Fail(t, e)

\* POST /videos is accepted
create_video(t) ==
    /\ pc[t] = "idle"
    /\ Admit(1)
    /\ \E v \in CreateVideoRequest :
          req' = [req EXCEPT ![t] = Some([kind |-> "single", videos |-> << v >>])]
    /\ pc' = [pc EXCEPT ![t] = "insert"]
    /\ UNCHANGED << readVars, poolVars, phase, PROCESSOR_VERSION, storeVars, queue, brokerUp, handleVars,
                    idx, result, results, success_count, failed_count, response,
                    hist, callVars, ret, ops >>

\* POST /videos/batch is accepted
batch_create_videos(t) ==
    /\ pc[t] = "idle"
    /\ \E vs \in BatchCreateVideoRequest :
          /\ Admit(Len(vs))
          /\ req' = [req EXCEPT ![t] = Some([kind |-> "batch", videos |-> vs])]
    /\ pc' = [pc EXCEPT ![t] = "insert"]
    /\ UNCHANGED << readVars, poolVars, phase, PROCESSOR_VERSION, storeVars, queue, brokerUp, handleVars,
                    idx, result, results, success_count, failed_count, response,
                    hist, callVars, ret, ops >>

\* step 1 of both handlers: db.insert_video_info and the test of its result
Insert(t) ==
    /\ pc[t] = "insert"
    /\ \E o \in DbOutcomes :
          LET r == insert_video_info(The(req[t]).videos[idx[t] + 1], o)
          IN  /\ store' = r.rows
              /\ auto_increment' = r.next
              /\ hist' = [hist EXCEPT ![t] = Append(@, NewItem(o, r.result))]
              /\ result' = [result EXCEPT ![t] = r.result]
              /\ IF r.raised # None \/ r.result = None
                 THEN AfterFailedInsert(t, r.raised)
                 ELSE /\ pc' = [pc EXCEPT ![t] = "push"]
                      /\ UNCHANGED << idx, results, success_count, failed_count,
                                      response >>
    /\ UNCHANGED << readVars, poolVars, phase, PROCESSOR_VERSION, queue, brokerUp, handleVars, req,
                    callVars, ret, ops >>

\* step 2 of both handlers: the descriptor is built and redis_client.lpush is
\* entered; self.client.lpush is looked up before _retry_operation runs
Push(t) ==
    /\ pc[t] = "push"
    /\ IF PROCESSOR_VERSION \notin {"v1", "v2"}
       THEN /\ AfterPush(t)
            /\ UNCHANGED << hist, callVars >>
       ELSE IF client \in {"unset", "None"}
       THEN \* AttributeError leaves lpush and is caught by the handler
            /\ hist' = [hist EXCEPT ![t] =
                   SetLast(@, [Last(@) EXCEPT !.calls = @ + 1,
                                              !.push = Some(Raise(AttributeError))])]
            /\ AfterPush(t)
            /\ UNCHANGED callVars
       ELSE /\ key' = [key EXCEPT ![t] = Some(JobQueue)]
            /\ value' = [value EXCEPT ![t] =
                   Some(JobDescriptor(The(result[t]).id, The(req[t]).videos[idx[t] + 1]))]
            /\ attempt' = [attempt EXCEPT ![t] = 0]
            /\ last_error' = [last_error EXCEPT ![t] = None]
            /\ tried' = [tried EXCEPT ![t] = << >>]
            /\ slept' = [slept EXCEPT ![t] = << >>]
            /\ hist' = [hist EXCEPT ![t] = SetLast(@, [Last(@) EXCEPT !.calls = @ + 1])]
            /\ pc' = [pc EXCEPT ![t] = "retry"]
            /\ UNCHANGED << idx, results, success_count, failed_count, response >>
    /\ UNCHANGED << readVars, poolVars, phase, PROCESSOR_VERSION, storeVars, queue, brokerUp, handleVars,
                    req, result, ret, ops >>

\* history: where the handle is in the state machine of the Queue Client,
\* after the step of context t: a first connection makes it CONNECTED, a push
\* that used up its retries FAILED, a reset that returns after that
\* RECONNECTED, and a push that is answered after that RECOVERED
Observed(t) ==
    phase' =
        IF connects' > connects /\ phase = "UNCONNECTED" THEN "CONNECTED"
        ELSE IF op[t] = "reset" /\ pc[t] = "connected" /\ pc'[t] = "done"
        THEN (IF phase = "FAILED" THEN "RECONNECTED" ELSE phase)
        ELSE IF op[t] = "lpush" /\ pc[t] = "retry" /\ pc'[t] = "done" /\ req[t] = None
        THEN (IF The(ret'[t]).val = 0
              THEN (IF Len(tried'[t]) = max_retries /\ phase # "UNCONNECTED"
                    THEN "FAILED" ELSE phase)
              ELSE (IF phase = "RECONNECTED" THEN "RECOVERED" ELSE phase))
        ELSE phase

\* the locals of a finished call inside a handler are gone
ClearCall(t) ==
    /\ key' = [key EXCEPT ![t] = None]
    /\ value' = [value EXCEPT ![t] = None]
    /\ attempt' = [attempt EXCEPT ![t] = 0]
    /\ last_error' = [last_error EXCEPT ![t] = None]
    /\ tried' = [tried EXCEPT ![t] = << >>]
    /\ slept' = [slept EXCEPT ![t] = << >>]

\* lpush returns x (a count, or 0 after a RedisError) into its caller, after
\* an attempt that met o
LpushReturns(t, x, o) ==
    IF req[t] = None
    THEN /\ ret' = [ret EXCEPT ![t] = Some(x)]
         /\ ops' = [ops EXCEPT ![t] = @ + 1]
         /\ pc' = [pc EXCEPT ![t] = "done"]
         /\ tried' = [tried EXCEPT ![t] = Append(@, o)]
         /\ last_error' = [last_error EXCEPT ![t] =
                IF Raised(o) # None /\ The(Raised(o)) \in Transient
                THEN Raised(o) ELSE @]
         /\ UNCHANGED << key, value, attempt, slept, idx, results, success_count,
                         failed_count, response, hist >>
    ELSE /\ hist' = [hist EXCEPT ![t] =
                SetLast(@, [Last(@) EXCEPT !.tries = attempt[t] + 1, !.push = Some(x)])]
         /\ AfterPush(t)
         /\ ClearCall(t)
         /\ UNCHANGED << ret, ops >>

\* one iteration of the loop of _retry_operation inside lpush: func is called,
\* and the iteration ends the call or goes to the next attempt
Retry(t) ==
    /\ pc[t] = "retry"
    /\ attempt[t] < max_retries
    /\ \E o \in BrokerOutcomes :
          LET e == Raised(o)
              applied == o \in {"ok", "applied_timeout"}
              q == IF applied THEN LPUSH(The(key[t]), The(value[t])) ELSE queue
          IN  /\ queue' = q
              /\ IF e = None
                 THEN \* return func(*args, **kwargs)
                      LpushReturns(t, Returned(Len(q[The(key[t])])), o)
                 ELSE IF The(e) \notin Transient
                 THEN \* not caught by _retry_operation; lpush: except RedisError
                      LpushReturns(t, Returned(0), o)
                 ELSE IF attempt[t] < max_retries - 1
                 THEN \* last_error = e; time.sleep(wait_time); next attempt
                      /\ last_error' = [last_error EXCEPT ![t] = e]
                      /\ tried' = [tried EXCEPT ![t] = Append(@, o)]
                      /\ slept' = [slept EXCEPT ![t] = Append(@, wait_time(attempt[t]))]
                      /\ attempt' = [attempt EXCEPT ![t] = @ + 1]
                      /\ UNCHANGED << pc, key, value, idx, results, success_count,
                                      failed_count, response, hist, ret, ops >>
                 ELSE \* the loop is over: raise last_error; lpush returns 0
                      LpushReturns(t, Returned(0), o)
    /\ UNCHANGED << readVars, poolVars, PROCESSOR_VERSION, storeVars, brokerUp, handleVars, req, result >>
    /\ Observed(t)

Next ==
    \/ ConnectivityChange
    \/ \E t \in Threads : create_video(t)
    \/ \E t \in Threads : batch_create_videos(t)
    \/ \E t \in Threads : Insert(t)
    \/ \E t \in Threads : Push(t)
    \/ \E t \in Threads : Retry(t)

Spec == Init /\ [][Next]_vars

\* ------------------------------------------------------------ the handle
\* the variables no operation of the Queue Client changes
ingestVars == << readVars, poolVars, PROCESSOR_VERSION, store, auto_increment, req, idx, result,
                 results, success_count, failed_count, response, hist >>

\* a context free to call the Queue Client
Idle(t) == pc[t] \in {"idle", "done"} /\ ops[t] < MaxOps /\ req[t] = None

\* context t starts operation o at position p
Begins(t, o, p) ==
    /\ op' = [op EXCEPT ![t] = o]
    /\ pc' = [pc EXCEPT ![t] = p]
    /\ ret' = [ret EXCEPT ![t] = None]
    /\ UNCHANGED ops

\* the operation of context t ends with x: a value returned or an exception
Ends(t, x) ==
    /\ ret' = [ret EXCEPT ![t] = Some(x)]
    /\ ops' = [ops EXCEPT ![t] = @ + 1]
    /\ pc' = [pc EXCEPT ![t] = "done"]

\* RedisClient.get_instance(): the unlocked test, then RedisClient() or the return
get_instance(t) ==
    /\ Idle(t)
    /\ IF _instance = "None"
       THEN /\ Begins(t, "get_instance", "new")
            /\ UNCHANGED handle
       ELSE /\ op' = [op EXCEPT ![t] = "get_instance"]
            /\ handle' = [handle EXCEPT ![t] = _instance]
            /\ Ends(t, Returned(_instance))
    /\ UNCHANGED << ingestVars, queue, brokerUp, classVars, callVars >>
    /\ Observed(t)

\* RedisClient() called directly
RedisClient(t) ==
    /\ Idle(t)
    /\ Begins(t, "RedisClient", "new")
    /\ UNCHANGED << ingestVars, phase, queue, brokerUp, classVars, handle, callVars >>

\* __new__: the unlocked test of cls._instance
new_check(t) ==
    /\ pc[t] = "new"
    /\ pc' = [pc EXCEPT ![t] = IF _instance = "None" THEN "new_lock" ELSE "init"]
    /\ UNCHANGED << ingestVars, phase, queue, brokerUp, handleVars, callVars, ret, ops >>

\* __new__: under cls._lock, the second test and the assignment of a fresh
\* object, which has neither client nor _initialized
new_locked(t) ==
    /\ pc[t] = "new_lock"
    /\ _lock = "free"
    /\ IF _instance = "None"
       THEN /\ _instance' = "obj"
            /\ client' = "unset"
            /\ _initialized' = "unset"
       ELSE UNCHANGED << _instance, client, _initialized >>
    /\ pc' = [pc EXCEPT ![t] = "init"]
    /\ UNCHANGED << ingestVars, phase, queue, brokerUp, _lock, connects, handle, op,
                    callVars, ret, ops >>

\* the constructor call returns the handle to context t
Constructed(t) ==
    /\ handle' = [handle EXCEPT ![t] = "obj"]
    /\ Ends(t, Returned("obj"))

\* __init__: hasattr(self, '_initialized') and self._initialized
init_check(t) ==
    /\ pc[t] = "init"
    /\ IF _initialized = "True"
       THEN Constructed(t)
       ELSE /\ pc' = [pc EXCEPT ![t] = "uninit"]
            /\ UNCHANGED << handle, ret, ops >>
    /\ UNCHANGED << ingestVars, queue, brokerUp, classVars, op, callVars >>
    /\ Observed(t)

\* self._initialized = False, of __init__ and of reset
unset_initialized(t) ==
    /\ pc[t] = "uninit"
    /\ _initialized' = "False"
    /\ pc' = [pc EXCEPT ![t] = IF op[t] = "reset" THEN "connect" ELSE "init_client"]
    /\ UNCHANGED << ingestVars, phase, queue, brokerUp, _instance, client, _lock, connects,
                    handle, op, callVars, ret, ops >>

\* __init__: self.client = None
init_client(t) ==
    /\ pc[t] = "init_client"
    /\ client' = "None"
    /\ pc' = [pc EXCEPT ![t] = "connect"]
    /\ UNCHANGED << ingestVars, phase, queue, brokerUp, _instance, _initialized, _lock,
                    connects, handle, op, callVars, ret, ops >>

\* _connect: self.client = Redis(**params)
connect(t) ==
    /\ pc[t] = "connect"
    /\ client' = "Redis"
    /\ pc' = [pc EXCEPT ![t] = "ping"]
    /\ UNCHANGED << ingestVars, phase, queue, brokerUp, _instance, _initialized, _lock,
                    connects, handle, op, callVars, ret, ops >>

\* a bug: reset returns without leaving its with-block
Unlock_Never(t) == _lock' = _lock

\* reset leaves its with-block
Unlock(t) == _lock' = IF op[t] = "reset" THEN "free" ELSE _lock

\* _connect: self.client.ping(); an exception is logged and raised again, and
\* leaves __init__ or reset
ping(t) ==
    /\ pc[t] = "ping"
    /\ IF client # "Redis"
       THEN /\ Ends(t, Raise(AttributeError))
            /\ Unlock(t)
            /\ UNCHANGED connects
       ELSE IF brokerUp
       THEN /\ connects' = connects + 1
            /\ pc' = [pc EXCEPT ![t] = "connected"]
            /\ UNCHANGED << _lock, ret, ops >>
       ELSE /\ \E e \in Transient : Ends(t, Raise(e))
            /\ Unlock(t)
            /\ UNCHANGED connects
    /\ UNCHANGED << ingestVars, queue, brokerUp, _instance, client, _initialized,
                    handle, op, callVars >>
    /\ Observed(t)

\* self._initialized = True, of __init__ and of reset
set_initialized(t) ==
    /\ pc[t] = "connected"
    /\ _initialized' = "True"
    /\ IF op[t] = "reset"
       THEN /\ Ends(t, Returned("None"))
            /\ UNCHANGED handle
       ELSE Constructed(t)
    /\ Unlock(t)
    /\ UNCHANGED << ingestVars, queue, brokerUp, _instance, client, connects, op,
                    callVars >>
    /\ Observed(t)

\* a bug: reset drops the handle, for the next get_instance to build another
reset_DropsHandle(t) ==
    /\ Idle(t)
    /\ _lock = "free"
    /\ op' = [op EXCEPT ![t] = "reset"]
    /\ Ends(t, Returned("None"))
    /\ _instance' = "None"
    /\ client' = "unset"
    /\ _initialized' = "unset"
    /\ UNCHANGED << ingestVars, queue, brokerUp, _lock, connects, handle, callVars >>
    /\ Observed(t)

\* RedisClient.reset(): the lock is taken; without a handle nothing is done;
\* else the client is closed and the reconnection begins on the same object
reset(t) ==
    /\ Idle(t)
    /\ _lock = "free"
    /\ IF _instance = "None"
       THEN /\ op' = [op EXCEPT ![t] = "reset"]
            /\ Ends(t, Returned("None"))
            /\ UNCHANGED _lock
       ELSE IF client = "unset"
       THEN \* RedisClient._instance.client: AttributeError, raised again
            /\ op' = [op EXCEPT ![t] = "reset"]
            /\ Ends(t, Raise(AttributeError))
            /\ UNCHANGED _lock
       ELSE /\ Begins(t, "reset", "uninit")
            /\ _lock' = t
    /\ UNCHANGED << _instance, client, _initialized >>
    /\ UNCHANGED << ingestVars, queue, brokerUp, connects, handle, callVars >>
    /\ Observed(t)

\* the payloads and the queue of the calls made directly
Payloads == {"x"}
DirectQueues == {QUEUE_NAME_V1}

\* redis_client.lpush(key, value) called directly
lpush(t) ==
    /\ Idle(t)
    /\ handle[t] = "obj"
    /\ \E k \in DirectQueues, v \in Payloads :
          IF client \in {"unset", "None"}
          THEN /\ op' = [op EXCEPT ![t] = "lpush"]
               /\ Ends(t, Raise(AttributeError))
               /\ ClearCall(t)
          ELSE /\ Begins(t, "lpush", "retry")
               /\ key' = [key EXCEPT ![t] = Some(k)]
               /\ value' = [value EXCEPT ![t] = Some(v)]
               /\ attempt' = [attempt EXCEPT ![t] = 0]
               /\ last_error' = [last_error EXCEPT ![t] = None]
               /\ tried' = [tried EXCEPT ![t] = << >>]
               /\ slept' = [slept EXCEPT ![t] = << >>]
    /\ UNCHANGED << ingestVars, queue, brokerUp, classVars, handle >>
    /\ Observed(t)

\* what a BLPOP meets: an entry, an empty list until the timeout (0: no
\* timeout), or an error
BlpopOutcomes(k, timeout) ==
    IF brokerUp
    THEN (IF queue[k] # << >> THEN {"pop"} ELSE IF timeout > 0 THEN {"empty"} ELSE {})
         \cup {ResponseError}
    ELSE {ConnectionError, TimeoutError}

\* a bug: every exception of self.client.blpop is logged and None returned
blpop_except_Swallowed(e) == Returned(None)

\* what blpop does with the exception e of self.client.blpop
blpop_except(e) == IF e = ConnectionError THEN Raise(e) ELSE Returned(None)

\* redis_client.blpop(key, timeout): one command, no _retry_operation
blpop(t) ==
    /\ Idle(t)
    /\ handle[t] = "obj"
    /\ op' = [op EXCEPT ![t] = "blpop"]
    /\ \E k \in DirectQueues, timeout \in {0, 1} :
          /\ key' = [key EXCEPT ![t] = Some(k)]
          /\ IF client \in {"unset", "None"}
             THEN /\ Ends(t, Raise(AttributeError))
                  /\ tried' = [tried EXCEPT ![t] = << >>]
                  /\ UNCHANGED queue
             ELSE \E o \in BlpopOutcomes(k, timeout) :
                  /\ tried' = [tried EXCEPT ![t] = << o >>]
                  /\ IF o = "pop"
                     THEN /\ queue' = [queue EXCEPT ![k] = Tail(@)]
                          /\ Ends(t, Returned(Some(<< k, Head(queue[k]) >>)))
                     ELSE /\ UNCHANGED queue
                          /\ Ends(t, IF o = "empty" THEN Returned(None)
                                     ELSE blpop_except(o))
    /\ UNCHANGED << ingestVars, brokerUp, classVars, handle, value, attempt,
                    last_error, slept >>
    /\ Observed(t)

\* what the one ping of health_check meets
PingOutcomes ==
    IF client \in {"unset", "None"} THEN {AttributeError}
    ELSE IF brokerUp THEN {"ok"}
    ELSE Transient

\* a bug: a ConnectionError leaves health_check, as it leaves blpop
health_check_except_ConnectionRaises(e) ==
    IF e = ConnectionError THEN Raise(e) ELSE Returned(FALSE)

\* except Exception as e: logged, False returned
health_check_except(e) == Returned(FALSE)

\* redis_client.health_check(): self.client.ping() once, outside
\* _retry_operation; True when it is answered
health_check(t) ==
    /\ Idle(t)
    /\ handle[t] = "obj"
    /\ op' = [op EXCEPT ![t] = "health_check"]
    /\ \E o \in PingOutcomes :
          /\ tried' = [tried EXCEPT ![t] = << o >>]
          /\ Ends(t, IF o = "ok" THEN Returned(TRUE) ELSE health_check_except(o))
    /\ UNCHANGED << ingestVars, phase, queue, brokerUp, classVars, handle, key, value,
                    attempt, last_error, slept >>

NextQueue ==
    \/ ConnectivityChange
    \/ \E t \in Threads : get_instance(t)
    \/ \E t \in Threads : RedisClient(t)
    \/ \E t \in Threads : new_check(t)
    \/ \E t \in Threads : new_locked(t)
    \/ \E t \in Threads : init_check(t)
    \/ \E t \in Threads : unset_initialized(t)
    \/ \E t \in Threads : init_client(t)
    \/ \E t \in Threads : connect(t)
    \/ \E t \in Threads : ping(t)
    \/ \E t \in Threads : set_initialized(t)
    \/ \E t \in Threads : reset(t)
    \/ \E t \in Threads : lpush(t)
    \/ \E t \in Threads : Retry(t)
    \/ \E t \in Threads : blpop(t)
    \/ \E t \in Threads : health_check(t)

SpecQueue == InitQueue /\ [][NextQueue]_vars

\* the handlers' process, its handle constructed: the contexts push, probe
\* and reconnect
NextHandle ==
    \/ ConnectivityChange
    \/ \E t \in Threads : reset(t)
    \/ \E t \in Threads : unset_initialized(t)
    \/ \E t \in Threads : connect(t)
    \/ \E t \in Threads : ping(t)
    \/ \E t \in Threads : set_initialized(t)
    \/ \E t \in Threads : lpush(t)
    \/ \E t \in Threads : Retry(t)
    \/ \E t \in Threads : health_check(t)

\* the wire shape does not matter to the calls made directly
InitHandle == Init /\ PROCESSOR_VERSION = "v1"

SpecHandle == InitHandle /\ [][NextHandle]_vars

\* the contexts only ask for the handle: RedisClient() and get_instance()
NextConstruct ==
    \/ ConnectivityChange
    \/ \E t \in Threads : get_instance(t)
    \/ \E t \in Threads : RedisClient(t)
    \/ \E t \in Threads : new_check(t)
    \/ \E t \in Threads : new_locked(t)
    \/ \E t \in Threads : init_check(t)
    \/ \E t \in Threads : unset_initialized(t)
    \/ \E t \in Threads : init_client(t)
    \/ \E t \in Threads : connect(t)
    \/ \E t \in Threads : ping(t)
    \/ \E t \in Threads : set_initialized(t)

SpecConstruct == InitQueue /\ [][NextConstruct]_vars

\* ------------------------------------------------------ Record Store: reads
\* the characters of the strings that titles and queries are made of
Letters(s) == CASE s = "" -> << >>
                [] s = "t" -> << "t" >>
                [] s = "u" -> << "u" >>
                [] s = "tu" -> << "t", "u" >>
                [] s = "%" -> << "%" >>

\* the rank of a string value in the collation of the store
Collate(s) == CASE s = "a" -> 1 [] s = "b" -> 2 [] s = "c" -> 3 [] s = "d" -> 4
                [] s = "t" -> 5 [] s = "tu" -> 6 [] s = "u" -> 7

\* a bound parameter: an integer or a string (its characters)
IntParam(n) == [int |-> n]
StrParam(cs) == [str |-> cs]

\* SQL: s LIKE p, with % for any run of characters and _ for any one
RECURSIVE Like(_, _)
Like(s, p) ==
    IF p = << >> THEN s = << >>
    ELSE IF Head(p) = "%"
    THEN Like(s, Tail(p)) \/ (s # << >> /\ Like(Tail(s), p))
    ELSE /\ s # << >>
         /\ Head(p) = "_" \/ Head(p) = Head(s)
         /\ Like(Tail(s), Tail(p))

\* " AND ".join(conditions)
RECURSIVE join(_)
join(conditions) ==
    IF Len(conditions) = 1 THEN conditions[1]
    ELSE conditions[1] \o " AND " \o join(Tail(conditions))

\* a bug: "if status" for "if status is not None": status 0 is no filter
_build_filter_query_StatusZeroAbsent(status, query) ==
    LET on == status # None /\ The(status) # 0
        given == query # None /\ The(query) # << >>
        conditions == (IF on THEN << "status = %s" >> ELSE << >>)
                      \o (IF given THEN << "title LIKE %s " >> ELSE << >>)
    IN  [conditions |-> conditions,
         where_clause |-> IF conditions # << >> THEN " WHERE " \o join(conditions)
                          ELSE "",
         params |-> (IF on THEN << IntParam(The(status)) >> ELSE << >>)
                    \o (IF given
                        THEN << StrParam(<< "%" >> \o The(query) \o << "%" >>) >>
                        ELSE << >>)]

\* _build_filter_query(status, query): the conditions, the WHERE text and the
\* parameters; query is None or a sequence of characters, and "if query" takes
\* the empty string for no query
_build_filter_query(status, query) ==
    LET c1 == IF status # None THEN << "status = %s" >> ELSE << >>
        p1 == IF status # None THEN << IntParam(The(status)) >> ELSE << >>
        given == query # None /\ The(query) # << >>
        c2 == IF given THEN << "title LIKE %s " >> ELSE << >>
        p2 == IF given THEN << StrParam(<< "%" >> \o The(query) \o << "%" >>) >>
              ELSE << >>
        conditions == c1 \o c2
    IN  [conditions |-> conditions,
         where_clause |-> IF conditions # << >> THEN " WHERE " \o join(conditions)
                          ELSE "",
         params |-> p1 \o p2]

\* the whitelists of get_video_page and get_highlight_page
video_valid_columns == {"id", "title", "status", "original_url", "highlight_url"}
highlight_valid_columns == {"id", "video_id", "vmaf_mean", "vmaf_min", "vmaf_max",
                            "duration", "start_time", "end_time"}

\* a bug: the requested column goes into the statement unchecked
validated_Unchecked(order_by, valid_columns) == order_by

\* if order_by not in valid_columns: order_by = "id"
validated(order_by, valid_columns) ==
    IF order_by \notin valid_columns THEN "id" ELSE order_by

\* a bug: the offset is taken from the page number itself
offset_OfPage(page, limit) == page * limit

\* offset = (int(page) - 1) * limit
offset(page, limit) == (page - 1) * limit

\* a statement given to cursor.execute: its text in parts, and its parameters
Select(table, conditions, where_clause, order_by, order_direction, params) ==
    [table |-> table, count |-> FALSE, conditions |-> conditions,
     sql |-> "SELECT * FROM " \o table \o where_clause \o " ORDER BY " \o order_by
             \o " " \o order_direction \o " LIMIT %s OFFSET %s",
     order_by |-> order_by, order_direction |-> order_direction, params |-> params]

SelectCount(table, conditions, where_clause, params) ==
    [table |-> table, count |-> TRUE, conditions |-> conditions,
     sql |-> "SELECT COUNT(*) as total FROM " \o table \o where_clause,
     order_by |-> "", order_direction |-> "", params |-> params]

\* a bug: params.extend([offset, limit])
get_video_page_sql_OffsetFirst(page, size, order_by, order_direction, status, query) ==
    LET f == _build_filter_query(status, query)
        limit == size
    IN  Select("video_info", f.conditions, f.where_clause,
               validated(order_by, video_valid_columns), order_direction,
               f.params \o << IntParam(offset(page, limit)), IntParam(limit) >>)

\* the statement of get_video_page
get_video_page_sql(page, size, order_by, order_direction, status, query) ==
    LET f == _build_filter_query(status, query)
        limit == size
    IN  Select("video_info", f.conditions, f.where_clause,
               validated(order_by, video_valid_columns), order_direction,
               f.params \o << IntParam(limit), IntParam(offset(page, limit)) >>)

\* the statement of get_video_count
get_video_count_sql(query, status) ==
    LET f == _build_filter_query(status, query)
    IN  SelectCount("video_info", f.conditions, f.where_clause, f.params)

\* the statement of get_highlight_page
get_highlight_page_sql(video_id, page, size, order_by, order_direction) ==
    LET limit == size
    IN  Select("video_stats", << "video_id = %s" >>, " WHERE video_id = %s",
               validated(order_by, highlight_valid_columns), order_direction,
               << IntParam(video_id), IntParam(limit), IntParam(offset(page, limit)) >>)

\* the statement of get_highlight_count
get_highlight_count_sql(video_id) ==
    SelectCount("video_stats", << "video_id = %s" >>, " WHERE video_id = %s",
                << IntParam(video_id) >>)

\* ---- the store's side: what executing a statement gives
Table(name) == IF name = "video_info" THEN store ELSE video_stats

\* condition c of a statement, its placeholder bound to parameter x, on row r
Satisfies(r, c, x) ==
    CASE c = "status = %s" -> r.status = x.int
      [] c = "video_id = %s" -> r.video_id = x.int
      [] c = "title LIKE %s " -> Like(Letters(r.title), x.str)

\* the positions in its table of the rows a statement selects; placeholders
\* are bound in the order of the text
Selected(st) ==
    { k \in 1..Len(Table(st.table)) :
        \A i \in 1..Len(st.conditions) :
            Satisfies(Table(st.table)[k], st.conditions[i], st.params[i]) }

\* the value a row is sorted by
SortKey(r, column) ==
    IF column \in {"title", "original_url", "highlight_url"} THEN Collate(r[column])
    ELSE r[column]

\* the orders the store may return the selected rows in: any order sorted by
\* the ORDER BY column, rows with equal values in either order
Orderings(st) ==
    LET T == Table(st.table)
        S == Selected(st)
        n == Cardinality(S)
    IN  { f \in [1..n -> S] :
            /\ \A i, j \in 1..n : i # j => f[i] # f[j]
            /\ \A i \in 1..(n - 1) :
                  IF st.order_direction = "asc"
                  THEN SortKey(T[f[i]], st.order_by) <= SortKey(T[f[i + 1]], st.order_by)
                  ELSE SortKey(T[f[i]], st.order_by) >= SortKey(T[f[i + 1]], st.order_by) }

Min(a, b) == IF a <= b THEN a ELSE b

\* cursor.fetchall() of a page statement: LIMIT and OFFSET are its last two
\* parameters
fetchall(st) ==
    LET T == Table(st.table)
        n == Len(st.conditions)
        limit == st.params[n + 1].int
        off == st.params[n + 2].int
    IN  { [i \in 1..(IF Len(f) > off THEN Min(limit, Len(f) - off) ELSE 0)
             |-> T[f[off + i]]] : f \in Orderings(st) }

\* cursor.fetchone()['total'] of a count statement
fetchone_total(st) == Cardinality(Selected(st))

\* the columns of the tables' rows
Columns(name) ==
    IF name = "video_info" THEN {"id", "original_url", "highlight_url", "title", "status"}
    ELSE {"id", "video_id", "vmaf_mean"}

\* the store executes a page statement only if its ORDER BY names a column of
\* the table; otherwise cursor.execute raises an Error
Executes(st) == st.order_by \in Columns(st.table)

\* what one read meets in the store
ReadOutcomes == {"ok", "query_error", "no_connection"}

\* the try blocks of the four readers, for a statement whose execution
\* gives x: "with None" raises TypeError, which no "except Error" catches
Read(o, x, sentinel) ==
    CASE o = "ok" -> Returned(x)
      [] o = "query_error" -> Returned(sentinel)
      [] o = "no_connection" -> Raise("TypeError")

\* PaginationData
PaginationData(totalItems, totalPages, currentPage, items) ==
    [totalItems |-> totalItems, totalPages |-> totalPages,
     currentPage |-> currentPage, items |-> items]

\* a bug: the last, partial page is not counted
ceil_Floor(a, b) == a \div b

\* math.ceil(a / b) for b > 0
ceil(a, b) == IF a % b = 0 THEN a \div b ELSE a \div b + 1

create_pagination_data(items, total_items, current_page, page_size) ==
    PaginationData(total_items,
                   IF page_size > 0 THEN ceil(total_items, page_size) ELSE 0,
                   current_page, items)

\* ------------------------------------------------------------ read handlers
\* the tables a read may meet: rows written earlier, their status set by the
\* workers since
VideoTables ==
    UNION { { [i \in 1..n |-> [id |-> i, original_url |-> "a", highlight_url |-> "b",
                               title |-> f[i].title, status |-> f[i].status]] :
                f \in [1..n -> [title : {"t", "tu"}, status : {0, 1}]] } :
            n \in 0..MaxRows }
StatsTables ==
    UNION { { [i \in 1..n |-> [id |-> i, video_id |-> f[i], vmaf_mean |-> 90 - 10 * i]] :
                f \in [1..n -> {1, 2}] } :
            n \in 0..MaxRows }

\* the process serving reads: a table of videos, or a table of highlights
InitRead ==
    /\ PROCESSOR_VERSION = "v1"
    /\ store \in VideoTables
    /\ video_stats \in IF store = << >> THEN StatsTables ELSE { << >> }
    /\ auto_increment = Len(store) + 1
    /\ InitContexts
    /\ _instance = "obj"
    /\ client = "Redis"
    /\ _initialized = "True"
    /\ connects = 1
    /\ phase = "CONNECTED"
    /\ handle = [t \in Threads |-> "obj"]

\* the values the read requests are drawn from
Pages == 1..MaxPage
Sizes == 1..MaxSize
Directions == {"asc", "desc"}
StatusFilters == {None, Some(0), Some(1)}
Queries == {None, Some(<< >>), Some(<< "u" >>), Some(<< "%" >>)}
VideoOrderBys == {"id", "title", "vmaf_mean"}
HighlightOrderBys == {"id", "vmaf_mean", "title"}
VideoIds == {1, 2}

\* one read request in a behaviour: no context has begun
ReadIdle == \A u \in Threads : pc[u] = "idle"

\* history: one call of the Record Store
DbCall(fn, st, o, r) == [fn |-> fn, sql |-> st, met |-> o, ret |-> r]

\* except Exception as e: the error envelope of the read handlers
ReadFailed(e) ==
    create_error_response("Internal server error: " \o e, HTTP_500_INTERNAL_SERVER_ERROR)

\* the body the read handlers share: the page call, the count call,
\* create_pagination_data and the success envelope; an exception of either
\* call ends the handler in its except clause
Paged(t, request, fnPage, stPage, fnCount, stCount, message) ==
    /\ \E o1, o2 \in ReadOutcomes,
          rows \in IF Executes(stPage) THEN fetchall(stPage) ELSE { << >> } :
          LET r1 == Read(IF o1 = "ok" /\ ~Executes(stPage) THEN "query_error" ELSE o1,
                         rows, << >>)
              r2 == Read(o2, fetchone_total(stCount), 0)
              c1 == DbCall(fnPage, stPage, o1, r1)
              c2 == DbCall(fnCount, stCount, o2, r2)
          IN  IF r1.kind = "raise"
              THEN /\ dbcalls' = [dbcalls EXCEPT ![t] = << c1 >>]
                   /\ response' = [response EXCEPT ![t] = Some(ReadFailed(r1.val))]
              ELSE IF r2.kind = "raise"
              THEN /\ dbcalls' = [dbcalls EXCEPT ![t] = << c1, c2 >>]
                   /\ response' = [response EXCEPT ![t] = Some(ReadFailed(r2.val))]
              ELSE /\ dbcalls' = [dbcalls EXCEPT ![t] = << c1, c2 >>]
                   /\ response' = [response EXCEPT ![t] =
                          Some(create_success_response(
                                 Some(create_pagination_data(r1.val, r2.val,
                                                             request.page, request.size)),
                                 message, HTTP_200_OK))]
    /\ req' = [req EXCEPT ![t] = Some(request)]
    /\ pc' = [pc EXCEPT ![t] = "done"]
    /\ UNCHANGED << poolVars, phase, PROCESSOR_VERSION, store, video_stats, auto_increment, queue,
                    brokerUp, handleVars, idx, result, results, success_count,
                    failed_count, hist, callVars, ret, ops >>

\* GET /videos
get_videos(t) ==
    /\ ReadIdle
    /\ \E page \in Pages, size \in Sizes, order_by \in VideoOrderBys,
       order_direction \in Directions, status_filter \in StatusFilters,
       query \in Queries :
        Paged(t, [kind |-> "get_videos", page |-> page, size |-> size,
                  order_by |-> order_by, order_direction |-> order_direction,
                  status_filter |-> status_filter, query |-> query],
              "get_video_page",
              get_video_page_sql(page, size, order_by, order_direction,
                                 status_filter, query),
              "get_video_count", get_video_count_sql(query, status_filter),
              "Videos retrieved successfully")

\* GET /videos/{video_id}/highlights
get_video_highlights(t) ==
    /\ ReadIdle
    /\ \E video_id \in VideoIds, page \in Pages, size \in Sizes,
       order_by \in HighlightOrderBys, order_direction \in Directions :
        Paged(t, [kind |-> "get_video_highlights", video_id |-> video_id,
                  page |-> page, size |-> size, order_by |-> order_by,
                  order_direction |-> order_direction],
              "get_highlight_page",
              get_highlight_page_sql(video_id, page, size, order_by, order_direction),
              "get_highlight_count", get_highlight_count_sql(video_id),
              "Highlights retrieved successfully")

\* GET /highlights/{highlight_id}/frames: DBAccess has no get_frame_page, so
\* db.get_frame_page raises AttributeError and the except clause answers
get_highlight_frames(t) ==
    /\ ReadIdle
    /\ \E highlight_id \in VideoIds, page \in Pages, size \in Sizes,
          order_by \in HighlightOrderBys, order_direction \in Directions :
          req' = [req EXCEPT ![t] =
                     Some([kind |-> "get_highlight_frames", highlight_id |-> highlight_id,
                           page |-> page, size |-> size, order_by |-> order_by,
                           order_direction |-> order_direction])]
    /\ dbcalls' = [dbcalls EXCEPT ![t] =
                      << DbCall("get_frame_page", None, "none", Raise(AttributeError)) >>]
    /\ response' = [response EXCEPT ![t] = Some(ReadFailed(AttributeError))]
    /\ pc' = [pc EXCEPT ![t] = "done"]
    /\ UNCHANGED << poolVars, phase, PROCESSOR_VERSION, store, video_stats, auto_increment, queue,
                    brokerUp, handleVars, idx, result, results, success_count,
                    failed_count, hist, callVars, ret, ops >>

\* create_pagination_data called on its own, with any count and page size
Paginate(t) ==
    /\ ReadIdle
    /\ \E total_items \in 0..MaxTotal, page_size \in (-1)..MaxPageSize :
          /\ req' = [req EXCEPT ![t] =
                        Some([kind |-> "create_pagination_data",
                              total_items |-> total_items, page_size |-> page_size])]
          /\ ret' = [ret EXCEPT ![t] =
                        Some(Returned(create_pagination_data(<< >>, total_items, 1,
                                                             page_size)))]
    /\ pc' = [pc EXCEPT ![t] = "done"]
    /\ UNCHANGED << poolVars, phase, PROCESSOR_VERSION, store, video_stats, auto_increment, queue,
                    brokerUp, handleVars, idx, result, results, success_count,
                    failed_count, hist, callVars, ops, dbcalls, response >>

NextRead ==
    \/ \E t \in Threads : get_videos(t)
    \/ \E t \in Threads : get_video_highlights(t)
    \/ \E t \in Threads : get_highlight_frames(t)
    \/ \E t \in Threads : Paginate(t)

SpecRead == InitRead /\ [][NextRead]_vars

\* ------------------------------------------------------------ the pool
\* MySQLConnectionPool.get_connection(): self.pool.get_connection() takes a
\* connection from the pool's queue without waiting and raises PoolError when
\* the queue is empty; that and every other Error is logged and None returned
PoolOutcomes == IF free > 0 THEN {"connection", "unreachable"} ELSE {"exhausted"}

\* what the body of the with-block meets
BodyOutcomes(fn) ==
    IF fn = "insert_video_info" THEN {"ok", "query_error", "close_error", "exception"}
    ELSE {"ok", "query_error", "exception"}

\* the statement a reading caller executes
CallerStatement(fn) ==
    CASE fn = "get_video_page" -> get_video_page_sql(1, MaxSize, "id", "desc", None, None)
      [] fn = "get_video_count" -> get_video_count_sql(None, None)
      [] fn = "get_highlight_page" -> get_highlight_page_sql(1, 1, MaxSize, "id", "desc")
      [] fn = "get_highlight_count" -> get_highlight_count_sql(1)

\* a bug: the connection is given back only when the statement succeeded
release_OnSuccessOnly(o) == IF o = "ok" THEN free + 1 ELSE free

\* leaving "with ... as connection": the connection is closed, which puts it
\* back in the pool's queue, whatever ended the block
release(o) == free + 1

\* the operation of caller c begins: "with self.pool.get_connection() as
\* connection"; None is no context manager, the TypeError leaves the operation
get_connection(c) ==
    /\ caller[c].pc \in {"idle", "done"}
    /\ caller[c].calls < MaxCalls
    /\ \E fn \in RecordStoreOps, o \in PoolOutcomes :
          IF o = "connection"
          THEN /\ free' = free - 1
               /\ caller' = [caller EXCEPT ![c] =
                      [pc |-> "with", fn |-> fn, got |-> o, met |-> "none",
                       calls |-> @.calls, ret |-> None]]
          ELSE /\ free' = free
               /\ caller' = [caller EXCEPT ![c] =
                      [pc |-> "done", fn |-> fn, got |-> o, met |-> "none",
                       calls |-> @.calls + 1, ret |-> Some(Raise("TypeError"))]]
    /\ UNCHANGED << readVars, phase, PROCESSOR_VERSION, storeVars, queue, brokerUp,
                    handleVars, pc, handlerVars, callVars, ret, ops >>

\* the body of the with-block and its exits: the statement, the return or the
\* except clause, and the release of the connection
with_connection(c) ==
    /\ caller[c].pc = "with"
    /\ \E o \in BodyOutcomes(caller[c].fn) :
          LET fn == caller[c].fn
              ends(x) == caller' = [caller EXCEPT ![c] =
                             [@ EXCEPT !.pc = "done", !.met = o, !.calls = @ + 1,
                                       !.ret = Some(x)]]
          IN  /\ free' = release(o)
              /\ IF o = "exception"
                 THEN /\ ends(Raise("Exception"))
                      /\ UNCHANGED storeVars
                 ELSE IF fn = "insert_video_info"
                 THEN LET r == insert_video_info(
                                  [original_url |-> "a", highlight_url |-> "b",
                                   title |-> "t"], o)
                      IN  /\ store' = r.rows
                          /\ auto_increment' = r.next
                          /\ ends(Returned(r.result))
                 ELSE /\ UNCHANGED storeVars
                      /\ IF fn \in {"get_video_page", "get_highlight_page"}
                         THEN \E rows \in fetchall(CallerStatement(fn)) :
                                 ends(Read(o, rows, << >>))
                         ELSE ends(Read(o, fetchone_total(CallerStatement(fn)), 0))
    /\ UNCHANGED << readVars, phase, PROCESSOR_VERSION, queue, brokerUp, handleVars, pc,
                    handlerVars, callVars, ret, ops >>

NextPool ==
    \/ \E c \in Callers : get_connection(c)
    \/ \E c \in Callers : with_connection(c)

\* the process whose callers share db, nothing stored yet
InitPool == Init /\ PROCESSOR_VERSION = "v1"

SpecPool == InitPool /\ [][NextPool]_vars

\* ------------------------------------------------------------ the helpers
\* DBAccess.execute_query and DBAccess.execute_update, the two general
\* helpers; no code of the repository calls them, so the callers pass one
\* statement each
Helpers == {"execute_query", "execute_update"}

\* the row that the statement given to execute_update inserts
HelperRow == [original_url |-> "a", highlight_url |-> "b", title |-> "t"]

\* what the helper returns for a store error: None, False
Sentinel(fn) == IF fn = "execute_query" THEN Returned(None) ELSE Returned(FALSE)

\* connection.cursor(): a cursor, or an Error when the connection is no
\* longer available
CursorOutcomes == {"ok", "cursor_error"}

\* what the try block of a helper meets: the statement runs, the store raises
\* an Error, or another exception is raised
TryOutcomes == {"ok", "query_error", "exception"}

\* the finally clause: cursor.close() and connection.close(), which puts the
\* connection back in the pool's queue
connection_close == free + 1

\* the first two statements of a helper: self.pool.get_connection() and the
\* test for None, which returns the sentinel
helper_begins(c, fn) ==
    /\ \E o \in PoolOutcomes :
          IF o = "connection"
          THEN /\ free' = free - 1
               /\ caller' = [caller EXCEPT ![c] =
                      [pc |-> "cursor", fn |-> fn, got |-> o, met |-> "none",
                       calls |-> @.calls, ret |-> None]]
          ELSE /\ free' = free
               /\ caller' = [caller EXCEPT ![c] =
                      [pc |-> "done", fn |-> fn, got |-> o, met |-> "none",
                       calls |-> @.calls + 1, ret |-> Some(Sentinel(fn))]]
    /\ UNCHANGED << readVars, phase, PROCESSOR_VERSION, storeVars, queue, brokerUp,
                    handleVars, pc, handlerVars, callVars, ret, ops >>

\* a caller that is not in an operation calls execute_query
execute_query(c) ==
    /\ caller[c].pc \in {"idle", "done"}
    /\ caller[c].calls < MaxCalls
    /\ helper_begins(c, "execute_query")

\* a caller that is not in an operation calls execute_update
execute_update(c) ==
    /\ caller[c].pc \in {"idle", "done"}
    /\ caller[c].calls < MaxCalls
    /\ helper_begins(c, "execute_update")

\* cursor = connection.cursor(...), before the try statement: an Error raised
\* here leaves the helper, past the except and the finally clauses
cursor(c) ==
    /\ caller[c].pc = "cursor"
    /\ \E o \in CursorOutcomes :
          IF o = "ok"
          THEN caller' = [caller EXCEPT ![c] = [@ EXCEPT !.pc = "try"]]
          ELSE caller' = [caller EXCEPT ![c] =
                   [@ EXCEPT !.pc = "done", !.met = o, !.calls = @ + 1,
                             !.ret = Some(Raise("Error"))]]
    /\ UNCHANGED << readVars, free, phase, PROCESSOR_VERSION, storeVars, queue,
                    brokerUp, handleVars, pc, handlerVars, callVars, ret, ops >>

\* the try statement of a helper: execute and fetchall (a list, here Some of
\* the rows, never None) or execute and commit, the except Error clause that
\* returns the sentinel, and the finally clause
try_finally(c) ==
    /\ caller[c].pc = "try"
    /\ \E o \in TryOutcomes :
          LET fn == caller[c].fn
              r == insert_video_info(HelperRow, "ok")
              ends(x) == caller' = [caller EXCEPT ![c] =
                             [@ EXCEPT !.pc = "done", !.met = o, !.calls = @ + 1,
                                       !.ret = Some(x)]]
          IN  /\ free' = connection_close
              /\ CASE o = "exception" ->
                        /\ ends(Raise("Exception"))
                        /\ UNCHANGED storeVars
                   [] o = "query_error" ->
                        /\ ends(Sentinel(fn))
                        /\ UNCHANGED storeVars
                   [] o = "ok" /\ fn = "execute_query" ->
                        /\ ends(Returned(Some(store)))
                        /\ UNCHANGED storeVars
                   [] o = "ok" /\ fn = "execute_update" ->
                        /\ store' = r.rows
                        /\ auto_increment' = r.next
                        /\ ends(Returned(TRUE))
    /\ UNCHANGED << readVars, phase, PROCESSOR_VERSION, queue, brokerUp, handleVars, pc,
                    handlerVars, callVars, ret, ops >>

NextHelpers ==
    \/ \E c \in Callers : execute_query(c)
    \/ \E c \in Callers : execute_update(c)
    \/ \E c \in Callers : cursor(c)
    \/ \E c \in Callers : try_finally(c)

SpecHelpers == InitPool /\ [][NextHelpers]_vars

\* ================================================================ claims
\* a context has returned its response
Done(t) == pc[t] = "done" /\ response[t] # None
Single(t) == req[t] # None /\ The(req[t]).kind = "single"
Batch(t) == req[t] # None /\ The(req[t]).kind = "batch"
\* the items of t whose outcome has been reported
Reported(t) == IF req[t] = None THEN {}
               ELSE IF Single(t) THEN (IF Done(t) THEN {1} ELSE {})
               ELSE 1..Len(results[t])
Envelope(t) == The(response[t])
Outcome(t) == The(Envelope(t).data)
\* the row of video_info with id i
RowsWithId(i) == { k \in 1..Len(store) : store[k].id = i }
\* an independent table of decimal numerals
Numeral == << "1", "2", "3", "4", "5", "6", "7", "8", "9", "10", "11", "12",
              "13", "14", "15", "16", "17", "18", "19", "20" >>

\* C1: an item whose insert returned no record or raised is reported as failed
\* (single: error envelope with code 500; batch: success false, video_id,
\* video_data null, error non-null) and no push is attempted for it.
C1_FailedInsertReportedNoPush ==
    \A t \in Threads : \A i \in 1..Len(hist[t]) :
        hist[t][i].insert # "ok" =>
            /\ hist[t][i].calls = 0
            /\ hist[t][i].push = None
            /\ i \in Reported(t)
            /\ IF Single(t)
               THEN /\ Envelope(t).code = HTTP_500_INTERNAL_SERVER_ERROR
                    /\ Envelope(t).status = "failed"
                    /\ Envelope(t).data = None
               ELSE /\ results[t][i].success = FALSE
                    /\ results[t][i].video_id = None
                    /\ results[t][i].video_data = None
                    /\ results[t][i].error # None

C1_Witness ==
    \E t \in Threads :
        /\ Batch(t) /\ Done(t) /\ Len(hist[t]) = 2
        /\ hist[t][1].insert = "no_connection"
        /\ hist[t][2].insert = "query_error"
        /\ queue = [q \in QueueNames |-> << >>]

\* C2: an item whose insert succeeded is reported as successful with the
\* stored record (single: success envelope, code 201, the record; batch:
\* success true and the record's id), whatever the push did.
C2_InsertedReportedSuccess ==
    \A t \in Threads : \A i \in 1..Len(hist[t]) :
        (hist[t][i].insert = "ok" /\ (i < Len(hist[t]) \/ pc[t] = "done")) =>
            /\ i \in Reported(t)
            /\ \E k \in RowsWithId(hist[t][i].id) :
                 IF Single(t)
                 THEN /\ Envelope(t).code = HTTP_201_CREATED
                      /\ Envelope(t).status = "success"
                      /\ Envelope(t).data = Some(store[k])
                 ELSE /\ results[t][i].success = TRUE
                      /\ results[t][i].video_id = Some(store[k].id)
                      /\ results[t][i].video_data = Some(store[k])
                      /\ results[t][i].error = None

\* the push of a successful item returned 0 after its retries were used up
C2_Witness ==
    \E t \in Threads :
        /\ Single(t) /\ Done(t)
        /\ hist[t][1].insert = "ok"
        /\ hist[t][1].tries = max_retries
        /\ hist[t][1].push = Some(Returned(0))
        /\ Envelope(t).status = "success"

\* the descriptor the configured wire shape gives for a row
DescriptorOfRow(r) ==
    IF PROCESSOR_VERSION = "v1" THEN Numeral[r.id]
    ELSE "{\"video_id\": " \o Numeral[r.id] \o ", \"original_url\": \"" \o r.original_url
         \o "\", \"highlight_url\": \"" \o r.highlight_url \o "\"}"

\* C3: with concurrent create requests, every descriptor in a queue names the
\* id of a row already committed to the store; a committed row need not have
\* a descriptor.
C3_QueuedOnlyAfterInsert ==
    \A q \in QueueNames : \A i \in 1..Len(queue[q]) :
        \E k \in 1..Len(store) : queue[q][i] = DescriptorOfRow(store[k])

\* two overlapping requests have both committed; one was pushed, the other's
\* request is over without a descriptor in the queue
C3_Witness ==
    /\ \A t \in Threads : Single(t) /\ Len(hist[t]) = 1 /\ hist[t][1].insert = "ok"
    /\ Len(store) = 2
    /\ \E t \in Threads :
          /\ Done(t)
          /\ hist[t][1].push = Some(Returned(0))
          /\ \A q \in QueueNames : \A i \in 1..Len(queue[q]) :
                queue[q][i] # DescriptorOfRow(store[CHOOSE k \in RowsWithId(hist[t][1].id) : TRUE])
    /\ \E q \in QueueNames : Len(queue[q]) = 1

\* the places of a queue that hold x
Places(q, x) == { i \in 1..Len(queue[q]) : queue[q][i] = x }
Inputs(t) == The(req[t]).videos

\* C4: after a successful insert whose push met an available broker, the
\* configured queue holds exactly one descriptor of the new row in the
\* configured wire shape (v1: the id as a string; v2: the JSON object with the
\* id and the request's urls), the other queue holds none, and the store has
\* exactly one row with that id, with status 0 and the request's fields.
C4_OneDescriptorInWireShape ==
    \A t \in Threads : \A i \in 1..Len(hist[t]) :
        (/\ hist[t][i].insert = "ok"
         /\ hist[t][i].tries = 1
         /\ hist[t][i].push # None
         /\ hist[t][i].push # Some(Returned(0))) =>
            /\ Cardinality(RowsWithId(hist[t][i].id)) = 1
            /\ \A k \in RowsWithId(hist[t][i].id) :
                  /\ store[k] = [id |-> hist[t][i].id, status |-> 0,
                                 original_url |-> Inputs(t)[i].original_url,
                                 highlight_url |-> Inputs(t)[i].highlight_url,
                                 title |-> Inputs(t)[i].title]
                  /\ LET d == IF PROCESSOR_VERSION = "v1"
                              THEN Numeral[hist[t][i].id]
                              ELSE "{\"video_id\": " \o Numeral[hist[t][i].id]
                                   \o ", \"original_url\": \"" \o Inputs(t)[i].original_url
                                   \o "\", \"highlight_url\": \"" \o Inputs(t)[i].highlight_url
                                   \o "\"}"
                         mine == IF PROCESSOR_VERSION = "v1" THEN QUEUE_NAME_V1
                                 ELSE QUEUE_NAME_V2
                     IN  /\ Cardinality(Places(mine, d)) = 1
                         /\ \A q \in QueueNames \ {mine} : Places(q, d) = {}

\* the scenario of the spec, in v1 mode, and its v2 twin
C4_Witness ==
    \E t \in Threads :
        /\ Single(t) /\ Done(t)
        /\ Inputs(t)[1] = [original_url |-> "a", highlight_url |-> "b", title |-> "t"]
        /\ hist[t][1].insert = "ok" /\ hist[t][1].tries = 1
        /\ hist[t][1].push = Some(Returned(1))
        /\ Len(store) = 1 /\ store[1].status = 0
        /\ PROCESSOR_VERSION = "v2"
        /\ Len(queue[QUEUE_NAME_V2]) = 1

\* C5: the BatchOutcome of a batch of N items has
\* total = N = success_count + failed_count = len(results), whatever failed.
C5_BatchCounts ==
    \A t \in Threads :
        (Batch(t) /\ pc[t] = "done") =>
            /\ response[t] # None
            /\ Outcome(t).total = Len(Inputs(t))
            /\ Outcome(t).success_count + Outcome(t).failed_count = Len(Inputs(t))
            /\ Len(Outcome(t).results) = Len(Inputs(t))
            /\ Outcome(t).success_count =
                  Cardinality({ i \in 1..Len(Outcome(t).results) :
                                   Outcome(t).results[i].success })

C5_Witness ==
    \E t \in Threads :
        /\ Batch(t) /\ Done(t) /\ Len(Inputs(t)) = MaxBatch
        /\ Outcome(t).failed_count = 2
        /\ hist[t][1].insert = "no_connection"
        /\ hist[t][2].push = Some(Returned(0))
        /\ hist[t][3].insert = "close_error"

\* C6: results[i] is the outcome of inputs[i]: one result per input, in input
\* order, also when some items fail.
C6_ResultsMirrorInputs ==
    \A t \in Threads :
        Batch(t) =>
            /\ Len(results[t]) = idx[t]
            /\ pc[t] = "done" => Outcome(t).results = results[t] /\ idx[t] = Len(Inputs(t))
            /\ \A i \in 1..Len(results[t]) :
                  /\ results[t][i].success <=> hist[t][i].insert = "ok"
                  /\ results[t][i].success =>
                        /\ results[t][i].video_id = Some(hist[t][i].id)
                        /\ The(results[t][i].video_data).id = hist[t][i].id
                        /\ The(results[t][i].video_data).original_url = Inputs(t)[i].original_url
                        /\ The(results[t][i].video_data).highlight_url = Inputs(t)[i].highlight_url
                        /\ The(results[t][i].video_data).title = Inputs(t)[i].title

\* a failed item between two successful ones with different inputs
C6_Witness ==
    \E t \in Threads :
        /\ Batch(t) /\ Done(t) /\ Len(Inputs(t)) = 3
        /\ Inputs(t)[1] # Inputs(t)[3]
        /\ Outcome(t).results[1].success
        /\ ~Outcome(t).results[2].success
        /\ Outcome(t).results[3].success

\* C7: in a batch a failed item neither aborts nor rolls back the others:
\* every input gets its own insert attempt, and every item whose insert
\* succeeded is in the store and reported successful when the batch returns.
C7_FailureIsPerItem ==
    \A t \in Threads :
        (Batch(t) /\ pc[t] = "done") =>
            /\ Len(hist[t]) = Len(Inputs(t))
            /\ \A i \in 1..Len(Inputs(t)) :
                  hist[t][i].insert = "ok" =>
                      /\ \E k \in 1..Len(store) :
                            /\ store[k].id = hist[t][i].id
                            /\ store[k].title = Inputs(t)[i].title
                      /\ Outcome(t).results[i].success
            /\ Outcome(t).success_count =
                  Cardinality({ i \in 1..Len(Inputs(t)) : hist[t][i].insert = "ok" })

\* the scenario of the spec: a batch of 3 whose 2nd insert fails
C7_Witness ==
    \E t \in Threads :
        /\ Batch(t) /\ Done(t) /\ Len(Inputs(t)) = 3
        /\ hist[t][1].insert = "ok"
        /\ hist[t][2].insert = "query_error"
        /\ hist[t][3].insert = "ok"
        /\ Outcome(t).total = 3
        /\ Outcome(t).success_count = 2
        /\ Outcome(t).failed_count = 1
        /\ Outcome(t).results[2].success = FALSE
        /\ Outcome(t).results[2].video_id = None
        /\ Len(store) = 2

\* ------------------------------------------------------------ C8 .. C10
\* a call of the Queue Client's operation o has ended in context t
Ended(t, o) == op[t] = o /\ pc[t] = "done" /\ ret[t] # None
\* the outcomes of a command that are errors of the broker
IsError(o) == o \in {"applied_timeout", "ConnectionError", "TimeoutError", "ResponseError"}
\* the outcomes that are transient connectivity errors
IsTransient(o) == o \in {"applied_timeout", "ConnectionError", "TimeoutError"}

\* C8: lpush never raises to its caller: in every state of the shared handle,
\* also while another thread constructs or reconnects it, an ended call has
\* returned, and it has returned 0 when its last attempt met a broker error.
C8_LpushNeverRaises ==
    \A t \in Threads :
        Ended(t, "lpush") =>
            /\ The(ret[t]).kind = "return"
            /\ (tried[t] # << >> /\ IsError(tried[t][Len(tried[t])]))
                   => The(ret[t]).val = 0

\* C9: one lpush makes at most 3 attempts; every attempt but the last one met
\* a transient connectivity error; a call that is about to make another
\* attempt has met nothing else, and fewer than 3 times.
C9_AtMostThreeAttemptsAfterTransient ==
    \A t \in Threads :
        op[t] = "lpush" =>
            /\ Len(tried[t]) <= 3
            /\ \A k \in 1..(Len(tried[t]) - 1) : IsTransient(tried[t][k])
            /\ pc[t] = "retry" =>
                  /\ Len(tried[t]) < 3
                  /\ \A k \in 1..Len(tried[t]) : IsTransient(tried[t][k])

\* a call answered at its third attempt, beside a call that a non-transient
\* error ended at its first
C9_Witness ==
    \E t, u \in Threads :
        /\ Ended(t, "lpush") /\ Len(tried[t]) = 3 /\ tried[t][3] = "ok"
        /\ The(ret[t]).kind = "return" /\ The(ret[t]).val > 0
        /\ Ended(u, "lpush") /\ tried[u] = << "ResponseError" >>
        /\ The(ret[u]).kind = "return" /\ The(ret[u]).val = 0

\* the step in which context t makes a blpop call on an initialized client
BlpopStep(t) ==
    /\ op'[t] = "blpop"
    /\ ops'[t] = ops[t] + 1
    /\ client = "Redis"

C11_OneHandleOneConnection ==
    /\ \A t \in Threads : handle[t] \in {"None", "obj"}
    /\ connects <= 1

\* context t is inside __init__, which any caller of RedisClient() may be
Constructing(t) ==
    op[t] # "reset" /\ pc[t] \in {"uninit", "init_client", "connect", "ping", "connected"}

\* the step in which the reset of context t returns
ResetReturns(t) ==
    op[t] = "reset" /\ pc[t] = "connected" /\ pc'[t] = "done"

PageCalls == {"get_video_page", "get_highlight_page"}
CountCalls == {"get_video_count", "get_highlight_count"}
StoreCalls(t) == 1..Len(dbcalls[t])

\* C13: no read operation of the Record Store lets an exception escape: every
\* call has returned, and each call that met a store error (a failed query, no
\* connection from the pool) has returned its sentinel, [] for a page and 0
\* for a count.
C13_StoreCallsReturnSentinels ==
    \A t \in Threads : \A i \in StoreCalls(t) :
        LET c == dbcalls[t][i]
        IN  c.fn \in PageCalls \cup CountCalls =>
                /\ c.ret.kind = "return"
                /\ (c.met # "ok" /\ c.fn \in PageCalls) => c.ret.val = << >>
                /\ (c.met # "ok" /\ c.fn \in CountCalls) => c.ret.val = 0

\* a finished request of the read handler k
Read_(t, k) == pc[t] = "done" /\ req[t] # None /\ The(req[t]).kind = k

\* C14: the column in the ORDER BY clause of every page statement is one of
\* the entity's whitelist, and it is id whenever the requested order_by is
\* not in the whitelist (and the requested one when it is).
C14_OrderByWhitelisted ==
    \A t \in Threads : \A i \in StoreCalls(t) :
        LET c == dbcalls[t][i]
            asked == The(req[t]).order_by
            whitelist ==
                IF c.fn = "get_video_page"
                THEN {"id", "title", "status", "original_url", "highlight_url"}
                ELSE {"id", "video_id", "vmaf_mean", "vmaf_min", "vmaf_max",
                      "duration", "start_time", "end_time"}
        IN  c.fn \in PageCalls =>
                /\ c.sql.order_by \in whitelist
                /\ asked \notin whitelist => c.sql.order_by = "id"
                /\ asked \in whitelist => c.sql.order_by = asked

\* videos asked in the order of a column of the other entity are answered in
\* the order of id, highest first
C14_Witness ==
    \E t \in Threads :
        /\ Read_(t, "get_videos")
        /\ The(req[t]).order_by = "vmaf_mean" /\ The(req[t]).order_direction = "desc"
        /\ dbcalls[t][1].sql.order_by = "id"
        /\ Len(store) = 3
        /\ response[t] # None /\ The(response[t]).status = "success"
        /\ Len(The(The(response[t]).data).items) = 2
        /\ The(The(response[t]).data).items[1].id = 3
        /\ The(The(response[t]).data).items[2].id = 2

\* a finished request of the read handler k both of whose calls the store
\* has answered
Answered(t, k) ==
    /\ Read_(t, k)
    /\ Len(dbcalls[t]) = 2
    /\ dbcalls[t][1].met = "ok" /\ dbcalls[t][1].ret.kind = "return"
    /\ dbcalls[t][2].met = "ok" /\ dbcalls[t][2].ret.kind = "return"
\* the page and the count such a request has got from the store
ItemsOf(t) == dbcalls[t][1].ret.val
TotalOf(t) == dbcalls[t][2].ret.val

\* the characters q occur in s, next to each other
Contains(s, q) ==
    \E i \in 0..(Len(s) - Len(q)) : SubSeq(s, i + 1, i + Len(q)) = q
\* the filter of the videos: status equality and title-contains, each only
\* when given
Filtered(r, status, query) ==
    /\ status # None => r.status = The(status)
    /\ query # None => Contains(Letters(r.title), The(query))
\* the query has none of the characters LIKE gives a meaning to
Literal(query) ==
    query = None \/ \A i \in 1..Len(The(query)) : The(query)[i] \notin {"%", "_"}
\* how many rows a page holds when n rows match
PageLength(n, page, size) ==
    IF n > (page - 1) * size
    THEN (IF n - (page - 1) * size < size THEN n - (page - 1) * size ELSE size)
    ELSE 0

IsCeiling(p, n, s) == p * s >= n /\ (p - 1) * s < n

\* C16: create_pagination_data returns ceil(total_items / page_size) as
\* totalPages when page_size > 0 and 0 when page_size <= 0, so 0 when
\* total_items is 0; it holds as well for the envelopes of the read handlers.
C16_TotalPagesIsCeiling ==
    \A t \in Threads :
        /\ Read_(t, "create_pagination_data") =>
              LET q == The(req[t])
                  d == The(ret[t]).val
              IN  /\ d.totalItems = q.total_items
                  /\ q.page_size > 0 => IsCeiling(d.totalPages, q.total_items, q.page_size)
                  /\ q.page_size <= 0 => d.totalPages = 0
                  /\ q.total_items = 0 => d.totalPages = 0
        /\ (/\ pc[t] = "done" /\ req[t] # None
            /\ The(req[t]).kind \in {"get_videos", "get_video_highlights"}
            /\ The(response[t]).status = "success") =>
              LET d == The(The(response[t]).data)
              IN  IsCeiling(d.totalPages, d.totalItems, The(req[t]).size)

\* 25 items in pages of 10 are 3 pages
C16_Witness ==
    \E t \in Threads :
        /\ Read_(t, "create_pagination_data")
        /\ The(req[t]).total_items = 25 /\ The(req[t]).page_size = 10
        /\ The(ret[t]).val.totalPages = 3

\* row a may come before row b when sorted by column c in direction d
MayPrecede(a, b, c, d) ==
    IF d = "asc" THEN SortKey(a, c) <= SortKey(b, c) ELSE SortKey(a, c) >= SortKey(b, c)

\* items are the rows ranked off+1 .. off+Len(items) among the rows of ids M
\* of the videos, sorted by column c in direction d: they are rows of M, each
\* once, in order, with off rows of M that may come before them and the rest
\* of M coming after
Ranked(items, M, off, c, d) ==
    LET ids == { items[i].id : i \in 1..Len(items) }
    IN  /\ \A i \in 1..Len(items) : items[i].id \in M /\ items[i] = store[items[i].id]
        /\ Cardinality(ids) = Len(items)
        /\ \A i \in 1..(Len(items) - 1) : MayPrecede(items[i], items[i + 1], c, d)
        /\ Len(items) > 0 =>
              \E B \in SUBSET (M \ ids) :
                  /\ Cardinality(B) = off
                  /\ \A k \in B : MayPrecede(store[k], items[1], c, d)
                  /\ \A k \in (M \ ids) \ B : MayPrecede(items[Len(items)], store[k], c, d)

\* C17: with N rows matching the filters, get_videos answers page p of size s
\* with the rows ranked (p-1)*s+1 .. min(p*s, N) in the requested order (id
\* for a column outside the whitelist), totalItems N, currentPage p and
\* totalPages ceil(N / s).
C17_PageIsRankedSlice ==
    \A t \in Threads :
        (Answered(t, "get_videos") /\ Literal(The(req[t]).query)) =>
            LET q == The(req[t])
                d == The(The(response[t]).data)
                M == { k \in 1..Len(store) : Filtered(store[k], q.status_filter, q.query) }
                N == Cardinality(M)
                c == IF q.order_by \in {"id", "title", "status", "original_url",
                                        "highlight_url"}
                     THEN q.order_by ELSE "id"
            IN  /\ The(response[t]).status = "success"
                /\ d.totalItems = N
                /\ d.currentPage = q.page
                /\ IsCeiling(d.totalPages, N, q.size)
                /\ Len(d.items) = PageLength(N, q.page, q.size)
                /\ Ranked(d.items, M, (q.page - 1) * q.size, c, q.order_direction)

\* three rows match status 0 and the query; page 2 of size 2 in ascending
\* order of id is the third of them, of 3 items in 2 pages
C17_Witness ==
    \E t \in Threads :
        /\ Answered(t, "get_videos")
        /\ The(req[t]).status_filter = << 0 >> /\ The(req[t]).query = << << "u" >> >>
        /\ The(req[t]).page = 2 /\ The(req[t]).size = 2
        /\ The(req[t]).order_by = "id" /\ The(req[t]).order_direction = "asc"
        /\ Len(store) = 3
        /\ \A k \in 1..3 : store[k].status = 0 /\ store[k].title = "tu"
        /\ The(The(response[t]).data).totalItems = 3
        /\ The(The(response[t]).data).totalPages = 2
        /\ The(The(response[t]).data).items = << store[3] >>

\* C18: when the store is unavailable during a read, its queries failing or
\* no connection being obtained, get_videos and get_video_highlights answer
\* with a success envelope with no items and totalItems 0, not with an error
\* envelope.
C18_UnavailableStoreReadsEmpty ==
    \A t \in Threads :
        (/\ pc[t] = "done" /\ req[t] # None
         /\ The(req[t]).kind \in {"get_videos", "get_video_highlights"}
         /\ \A i \in StoreCalls(t) : dbcalls[t][i].met \in {"query_error", "no_connection"}) =>
            /\ The(response[t]).status = "success"
            /\ The(The(response[t]).data).items = << >>
            /\ The(The(response[t]).data).totalItems = 0

\* C19: get_highlight_frames answers every valid highlight_id, page and size
\* with a success envelope whose data is a Pagination Envelope (totalItems,
\* totalPages, currentPage, items) computed from a page call and a count
\* call of the Record Store.
C19_FramesArePaginated ==
    \A t \in Threads :
        Read_(t, "get_highlight_frames") =>
            /\ The(response[t]).status = "success"
            /\ The(response[t]).data # None
            /\ Len(dbcalls[t]) = 2
            /\ \A i \in StoreCalls(t) : dbcalls[t][i].ret.kind = "return"
            /\ The(The(response[t]).data).currentPage = The(req[t]).page
            /\ IsCeiling(The(The(response[t]).data).totalPages,
                         The(The(response[t]).data).totalItems, The(req[t]).size)

\* C20: the envelope of every finished batch is the success envelope with code
\* 201, however many items failed, all of them included; the failures are in
\* results[] only, one failed result for each.
C20_BatchAlwaysCreated ==
    \A t \in Threads :
        (Done(t) /\ Batch(t)) =>
            /\ Envelope(t).code = 201
            /\ Envelope(t).status = "success"
            /\ Envelope(t).data # None
            /\ Outcome(t).failed_count =
                  Cardinality({ i \in 1..Len(Outcome(t).results) :
                                  ~Outcome(t).results[i].success })

\* a batch of three all of whose inserts failed is answered with 201
C20_Witness ==
    \E t \in Threads :
        /\ Done(t) /\ Batch(t)
        /\ Len(The(req[t]).videos) = 3
        /\ Envelope(t).code = 201
        /\ Outcome(t).success_count = 0 /\ Outcome(t).failed_count = 3
        /\ \A i \in 1..3 : ~Outcome(t).results[i].success
        /\ store = << >>

\* ------------------------------------------------------------ C21 .. C30
\* the three messages of a batch, written out
AllSucceededMessage(n) == "All " \o Numeral[n] \o " videos created successfully"
MixedMessage(sc, fc) == Numeral[sc] \o " videos created, " \o Numeral[fc] \o " failed"
NoneSucceededMessage == "All videos failed to create"

\* C21: the message of a finished batch of N >= 1 items is chosen by
\* success_count alone: the "all succeeded" message iff success_count = N, the
\* mixed message with success_count and failed_count iff 0 < success_count < N,
\* the failure message iff success_count = 0; the three differ, so exactly one
\* is chosen.
C21_MessageBySuccessCount ==
    \A t \in Threads :
        (Done(t) /\ Batch(t)) =>
            LET N == Len(Inputs(t))
                sc == Outcome(t).success_count
                fc == Outcome(t).failed_count
                m == Envelope(t).message
            IN  /\ N >= 1
                /\ m = AllSucceededMessage(N) <=> sc = N
                /\ (sc > 0 /\ fc > 0 /\ m = MixedMessage(sc, fc)) <=> (0 < sc /\ sc < N)
                /\ m = NoneSucceededMessage <=> sc = 0
                /\ Cardinality({ k \in 1..3 :
                       \/ k = 1 /\ m = AllSucceededMessage(N)
                       \/ k = 2 /\ sc > 0 /\ fc > 0 /\ m = MixedMessage(sc, fc)
                       \/ k = 3 /\ m = NoneSucceededMessage }) = 1

\* a batch of three with one failed item has the mixed message with its counts
C21_Witness ==
    \E t \in Threads :
        /\ Done(t) /\ Batch(t) /\ Len(Inputs(t)) = 3
        /\ Outcome(t).success_count = 2 /\ Outcome(t).failed_count = 1
        /\ Envelope(t).message = "2 videos created, 1 failed"

\* the step in which context t makes a health_check call
HealthStep(t) == op'[t] = "health_check" /\ ops'[t] = ops[t] + 1

\* C22: a health_check call sends one ping and does not retry or sleep; it
\* returns, True iff the handle has a client and the broker answers, and never
\* raises; it changes nothing of the handle or of the broker; and a call that
\* follows a call of the same context and meets the same connectivity returns
\* the same boolean.
C22_HealthCheckIdempotent ==
    [][\A t \in Threads :
          HealthStep(t) =>
              /\ Len(tried'[t]) = 1
              /\ slept' = slept /\ attempt' = attempt
              /\ The(ret'[t]).kind = "return"
              /\ The(ret'[t]).val = (brokerUp /\ client = "Redis")
              /\ classVars' = classVars /\ handle' = handle
              /\ queue' = queue /\ brokerUp' = brokerUp
              /\ (/\ Ended(t, "health_check")
                  /\ (tried[t][1] = "ok") <=> (tried'[t][1] = "ok"))
                     => ret'[t] = ret[t]
    ]_vars

\* a context has probed twice; its last probe was answered and the probe of
\* the other context, made while the broker was unreachable, was not
C22_Witness ==
    \E t, u \in Threads :
        /\ Ended(t, "health_check") /\ ops[t] = 2 /\ tried[t] = << "ok" >>
        /\ The(ret[t]) = Returned(TRUE)
        /\ Ended(u, "health_check") /\ tried[u] = << "ConnectionError" >>
        /\ The(ret[u]) = Returned(FALSE)

\* the record returned to the caller for item i of context t
ReturnedRecord(t, i) ==
    IF Single(t) THEN The(Envelope(t).data) ELSE The(results[t][i].video_data)

\* C23: the record returned for every successful insert, of create_video and
\* of a batch item, has status 0, the request's original_url, highlight_url
\* and title, and the id the store assigned: the store has one row with that
\* id, it holds the same fields, and no other returned record has that id.
C23_ReturnedRecordIsNewRow ==
    \A t \in Threads : \A i \in Reported(t) :
        hist[t][i].insert = "ok" =>
            LET rec == ReturnedRecord(t, i)
            IN  /\ DOMAIN rec = {"id", "original_url", "highlight_url", "title", "status"}
                /\ rec.status = 0
                /\ rec.original_url = Inputs(t)[i].original_url
                /\ rec.highlight_url = Inputs(t)[i].highlight_url
                /\ rec.title = Inputs(t)[i].title
                /\ rec.id >= FirstId
                /\ Cardinality({ k \in 1..Len(store) : store[k].id = rec.id }) = 1
                /\ \A k \in 1..Len(store) : store[k].id = rec.id => store[k] = rec
                /\ \A u \in Threads : \A j \in Reported(u) :
                      (hist[u][j].insert = "ok" /\ << u, j >> # << t, i >>)
                          => ReturnedRecord(u, j).id # rec.id

\* a created video and the second item of a batch, inserted by two requests
\* at the same time, are returned with their own ids and status 0
C23_Witness ==
    \E t, u \in Threads :
        /\ Single(t) /\ Done(t) /\ hist[t][1].insert = "ok"
        /\ Batch(u) /\ Len(results[u]) >= 1 /\ hist[u][1].insert = "ok"
        /\ ReturnedRecord(t, 1).status = 0 /\ ReturnedRecord(u, 1).status = 0
        /\ ReturnedRecord(t, 1).id = FirstId + 1 /\ ReturnedRecord(u, 1).id = FirstId
        /\ ReturnedRecord(t, 1).title = Inputs(t)[1].title

\* the waits of a call, in milliseconds: 0.1 s, then 0.2 s
Backoff == << 100, 200 >>

\* C24: a push sleeps after each transient failure that another attempt
\* follows, 0.1 s after the first and 0.2 s after the second, and does not
\* sleep after its last attempt; when the first two attempts fail transiently
\* and the third is answered, the call returns the broker's count, which is
\* not 0, and raises nothing.
C24_TransientPushBackoff ==
    \A t \in Threads :
        op[t] = "lpush" =>
            /\ Len(slept[t]) <= 2
            /\ \A k \in 1..Len(slept[t]) : slept[t][k] = Backoff[k]
            /\ pc[t] = "retry" => Len(slept[t]) = Len(tried[t])
            /\ (Ended(t, "lpush") /\ tried[t] # << >>) => Len(slept[t]) = Len(tried[t]) - 1
            /\ (/\ Ended(t, "lpush") /\ Len(tried[t]) = 3
                /\ IsTransient(tried[t][1]) /\ IsTransient(tried[t][2])
                /\ tried[t][3] = "ok") =>
                   /\ The(ret[t]).kind = "return"
                   /\ The(ret[t]).val > 0
                   /\ slept[t] = << 100, 200 >>

\* two attempts that did not reach the broker, then one that was answered:
\* one entry is in the list and the call returned 1 after 0.1 s and 0.2 s
C24_Witness ==
    \E t \in Threads :
        /\ Ended(t, "lpush")
        /\ tried[t] = << "ConnectionError", "TimeoutError", "ok" >>
        /\ The(ret[t]) = Returned(1)
        /\ slept[t] = << 100, 200 >>
        /\ queue["queue:v1"] = << "x" >>

\* the callers that hold a connection of the pool
Holders == { c \in Callers : caller[c].pc = "with" }

\* C25: every connection that an operation of the Record Store took from the
\* pool is back in the pool when the operation is over, however it ended:
\* the connections out of the pool are those of the operations in progress,
\* and there is none when no operation is in progress.
C25_ConnectionsReleased ==
    /\ free \in 0..pool_size
    /\ pool_size - free = Cardinality(Holders)
    /\ Holders = {} => free = pool_size

\* three callers have each completed two operations, among them a statement
\* that failed, an insert that was committed and an exception in the block,
\* and the pool is full again
C25_Witness ==
    /\ \A c \in Callers : caller[c].pc = "done" /\ caller[c].calls = MaxCalls
    /\ \E c \in Callers : caller[c].fn = "get_video_page" /\ caller[c].met = "query_error"
    /\ \E c \in Callers : caller[c].fn = "insert_video_info" /\ caller[c].met = "ok"
    /\ \E c \in Callers : caller[c].fn = "get_highlight_count" /\ caller[c].met = "exception"
    /\ Len(store) >= 1
    /\ free = pool_size

\* C26: an operation that begins when every connection of the pool is checked
\* out waits for one and then proceeds: no operation is over without having
\* had a connection because the pool was exhausted.
C26_ExhaustedPoolWaits ==
    \A c \in Callers :
        caller[c].got = "exhausted" =>
            /\ caller[c].pc # "done"
            /\ caller[c].ret = None

\* the text of the list query for each combination of filters, its
\* placeholders being, in order, those of the filters given, LIMIT and OFFSET
ListQueryText(status, query, order_by, order_direction) ==
    "SELECT * FROM video_info"
    \o (CASE status # None /\ query # None -> " WHERE status = %s AND title LIKE %s "
          [] status # None /\ query = None -> " WHERE status = %s"
          [] status = None /\ query # None -> " WHERE title LIKE %s "
          [] OTHER -> "")
    \o " ORDER BY " \o order_by \o " " \o order_direction \o " LIMIT %s OFFSET %s"

\* what the placeholders of the list query stand for, in the order of the text
ListQueryPlaceholders(status, query) ==
    (IF status # None THEN << "status" >> ELSE << >>)
    \o (IF query # None THEN << "title" >> ELSE << >>)
    \o << "limit", "offset" >>

\* the query of a request, None when it is absent or empty
GivenQuery(q) == IF q.query = None \/ The(q.query) = << >> THEN None ELSE q.query

\* C27: the parameters bound to the list query are the status (if given),
\* the title pattern (if given), the limit and the offset, in this order, for
\* each of the four combinations of filters; they are as many as the
\* placeholders of the query text and stand in their order.
C27_BindParametersInOrder ==
    \A t \in Threads :
        (Read_(t, "get_videos") /\ Len(dbcalls[t]) >= 1) =>
            LET q == The(req[t])
                st == dbcalls[t][1].sql
                s == q.status_filter
                g == GivenQuery(q)
                ph == ListQueryPlaceholders(s, g)
            IN  /\ st.sql = ListQueryText(s, g, st.order_by, q.order_direction)
                /\ Len(st.params) = Len(ph)
                /\ \A i \in 1..Len(ph) :
                      CASE ph[i] = "status" -> st.params[i] = [int |-> The(s)]
                        [] ph[i] = "title" ->
                              st.params[i] = [str |-> << "%" >> \o The(g) \o << "%" >>]
                        [] ph[i] = "limit" -> st.params[i] = [int |-> q.size]
                        [] ph[i] = "offset" -> st.params[i] = [int |-> (q.page - 1) * q.size]

\* both filters given, page 3 of size 2: four parameters
C27_Witness ==
    \E t \in Threads :
        /\ Answered(t, "get_videos")
        /\ The(req[t]).status_filter = << 1 >> /\ The(req[t]).query = << << "u" >> >>
        /\ The(req[t]).page = 3 /\ The(req[t]).size = 2
        /\ The(req[t]).order_by = "title" /\ The(req[t]).order_direction = "asc"
        /\ dbcalls[t][1].sql.params =
              << [int |-> 1], [str |-> << "%", "u", "%" >>], [int |-> 2], [int |-> 4] >>
        /\ dbcalls[t][1].sql.sql =
              "SELECT * FROM video_info WHERE status = %s AND title LIKE %s  ORDER BY title asc LIMIT %s OFFSET %s"

\* the step in which a push of context t, made directly, returns after an
\* attempt that the broker answered
PushAnswered(t) ==
    /\ op[t] = "lpush" /\ pc[t] = "retry" /\ pc'[t] = "done"
    /\ tried'[t][Len(tried'[t])] = "ok"

\* the step in which context t ends a call of the Queue Client
CallEnds(t) == pc'[t] = "done" /\ ops'[t] = ops[t] + 1

\* C28: the handle is UNCONNECTED until its first connection; a reset that
\* returns after a push has used up its retries (FAILED) leaves the same
\* handle initialized, with a new client that the broker has answered, and
\* the lock free; a push that the broker then answers returns its count; and
\* no call leaves the handle without client, or the lock held, which would
\* keep it from being reconnected.
C28_FailedHandleRecovers ==
    [][/\ phase' = "UNCONNECTED" <=> connects' = 0
       /\ \A t \in Threads :
             (ResetReturns(t) /\ phase = "FAILED") =>
                /\ phase' = "RECONNECTED"
                /\ _instance' = _instance /\ _instance' = "obj"
                /\ _initialized' = "True"
                /\ connects' >= 1
                /\ (\A u \in Threads : ~Constructing(u)) => client' = "Redis"
       /\ \A t \in Threads :
             (PushAnswered(t) /\ phase = "RECONNECTED") =>
                /\ The(ret'[t]).kind = "return"
                /\ The(ret'[t]).val > 0
                /\ phase' = "RECOVERED"
       /\ \A t \in Threads :
             (CallEnds(t) /\ op'[t] \in {"reset", "lpush", "health_check"}
                 /\ \A u \in Threads : pc'[u] \in {"idle", "done"}) =>
                /\ _lock' = "free"
                /\ _instance' = "obj" => client' = "Redis"
    ]_vars

\* a push used up its three attempts while the broker was unreachable, the
\* other context reconnected when it was reachable again, and a push through
\* the same handle was answered
C28_Witness ==
    \E t, u \in Threads :
        /\ phase = "RECOVERED"
        /\ Ended(t, "lpush") /\ The(ret[t]) = Returned(1)
        /\ Ended(u, "reset") /\ The(ret[u]).kind = "return"
        /\ connects = 2 /\ _instance = "obj" /\ client = "Redis"
        /\ _initialized = "True" /\ _lock = "free"
        /\ queue["queue:v1"] = << "x" >>

\* C29: a context that holds the handle, from get_instance or from
\* RedisClient(), holds an initialized one, also while the other context is
\* still constructing it: its client is set and its connection established.
C29_ReturnedHandleInitialized ==
    \A t \in Threads :
        handle[t] = "obj" =>
            /\ client = "Redis"
            /\ _initialized = "True"
            /\ connects >= 1

\* no context is inside a call of the Queue Client
Quiet == \A u \in Threads : pc[u] \in {"idle", "done"}

\* C30: when the connection attempt of the constructor has failed and the
\* error has been raised, no handle that never connected stays registered:
\* between calls the registered handle, which the next get_instance returns
\* without connecting, is one whose connection has been established.
C30_NoUnconnectedHandleRegistered ==
    /\ (Quiet /\ _instance # "None") => (connects >= 1 /\ _initialized = "True")
    /\ \A t \in Threads :
          (Quiet /\ Ended(t, "get_instance") /\ The(ret[t]).kind = "return") =>
              (handle[t] = "obj" /\ connects >= 1)

\* ------------------------------------------------------------ C31 .. C34
\* C31: the Pagination Envelope of every get_videos and get_video_highlights
\* answer is consistent, also when one of the two store queries failed: it has
\* no more items than totalItems, and no items and no pages when totalItems
\* is 0.
C31_EnvelopeConsistent ==
    \A t \in Threads :
        (/\ pc[t] = "done" /\ req[t] # None
         /\ The(req[t]).kind \in {"get_videos", "get_video_highlights"}
         /\ The(response[t]).status = "success") =>
            LET d == The(The(response[t]).data)
            IN  /\ Len(d.items) <= d.totalItems
                /\ d.totalItems = 0 => (d.items = << >> /\ d.totalPages = 0)

Succeeded(t) ==
    IF req[t] = None THEN 0
    ELSE IF Single(t) THEN (IF Envelope(t).status = "success" THEN 1 ELSE 0)
    ELSE success_count[t]

\* C33: an item reported as failed left no row in the store: once the create
\* requests are over, the rows added to the store are as many as the items
\* reported as succeeded (a batch's success_count), also when an error occurs
\* after the commit.
C33_FailedItemLeftNoRow ==
    (\A t \in Threads : req[t] # None => Done(t)) =>
        Len(store) = Succeeded("t1") + Succeeded("t2")

\* the callers between taking a connection in a helper and its finally clause
InHelper == { c \in Callers : caller[c].pc \in {"cursor", "try"} }
\* what a finished helper call of c met was an error of the store
StoreError(c) ==
    \/ caller[c].got \in {"unreachable", "exhausted"}
    \/ caller[c].met \in {"cursor_error", "query_error"}

\* C34: execute_query and execute_update give the connection back on every
\* exit path, also when creating the cursor fails (the connections out of the
\* pool are those of the helper calls in progress), and on every store error
\* they return None and False without raising.
C34_HelpersReleaseAndReturn ==
    /\ pool_size - free = Cardinality(InHelper)
    /\ \A c \in Callers :
          (caller[c].pc = "done" /\ caller[c].fn \in Helpers /\ StoreError(c)) =>
              /\ The(caller[c].ret).kind = "return"
              /\ IF caller[c].fn = "execute_query"
                 THEN The(caller[c].ret).val = None
                 ELSE The(caller[c].ret).val = FALSE

====
